---- MODULE Spec2Model ----
(***************************************************************************)
(* A model of the metric computation of wrap2025_dash: the two "wrapped"   *)
(* scripts (imessage_wrapped.py, whatsapp_wrapped.py) and the two-store    *)
(* dashboards (texts_dashboard.py, texts_dashboard_enhanced.py).           *)
(*                                                                         *)
(* A message store is a chat table and a message table.  A row of the      *)
(* message table is [chat, is_from_me, date, n, text]: date is the stored  *)
(* time in whole seconds since 2001-01-01 (message.date/1000000000 for     *)
(* iMessage, ZMESSAGEDATE for WhatsApp), text is the stored text (NULL or  *)
(* a string of characters) and n is the number of stored messages that     *)
(* carry exactly these column values (they are adjacent in scan order).    *)
(* The message table is a sequence: its order is the order in which the    *)
(* store returns rows that tie on a sort key.                              *)
(***************************************************************************)
EXTENDS Integers, Sequences, FiniteSets, TLC

VARIABLES
    prog,       \* the script that runs
    use_2024,   \* the --use-2024 command line flag
    access,     \* store -> "ok", "missing" (no file) or "denied" (file not readable)
    chat,       \* store -> chat table (chat id -> [handle, short_code, participant_count, session_type])
    message,    \* store -> message table (sequence of rows)
    tz,         \* offset of local time from UTC, in seconds
    pc,         \* position of main()
    out,        \* what the run has reported: [exit, msg]
    ts_start,   \* window start handed to analyze()
    ts_jun,     \* window midpoint handed to analyze()
    d,          \* the result dictionary of analyze()
    has,        \* store -> the flag check_access() of a dashboard returned
    data,       \* store -> the data a dashboard extracted from it
    merged,     \* the merged data of a dashboard
    today,      \* the local date of the run (dt.now()), as a day number
    html        \* what the generated report shows

vars == <<prog, use_2024, access, chat, message, tz, pc, out, ts_start, ts_jun, d,
          has, data, merged, today, html>>

----------------------------------------------------------------------------
(* Program constants *)

COCOA_OFFSET == 978307200

TS_2025 == 1735689600
TS_JUN_2025 == 1748736000
TS_2024 == 1704067200
TS_JUN_2024 == 1717200000

WA_TS_2025 == 757382400
WA_TS_JUN_2025 == 770428800
WA_TS_2024 == 725846400
WA_TS_JUN_2024 == 738892800

StoreOf(p) == IF p = "imessage_wrapped" THEN "imessage" ELSE "whatsapp"

----------------------------------------------------------------------------
(* Bounds of the model *)

MaxMsgs == 3        \* rows of a message table in the runs of Spec
MeanMsgs == 4       \* rows of a message table in the runs of SpecMean

----------------------------------------------------------------------------
(* Generic helpers *)

RECURSIVE SeqSum(_)
SeqSum(s) == IF s = <<>> THEN 0 ELSE Head(s) + SeqSum(Tail(s))

RECURSIVE SetSum(_, _)
SetSum(S, f) ==
    IF S = {} THEN 0
    ELSE LET x == CHOOSE x \in S : TRUE IN f[x] + SetSum(S \ {x}, f)

\* COUNT(*) over weighted rows; SUM(CASE WHEN P THEN 1 ELSE 0 END) is the
\* count of the rows SelectSeq keeps
CountRows(rows) == SeqSum([i \in 1..Len(rows) |-> rows[i].n])

Min(a, b) == IF a < b THEN a ELSE b

\* ORDER BY key DESC over the groups S; rows that tie on the key come in
\* ascending group order, or descending when rev
RECURSIVE OrderByDesc(_, _, _)
OrderByDesc(S, key, rev) ==
    IF S = {} THEN <<>>
    ELSE LET x == CHOOSE x \in S : \A y \in S :
                      \/ key[y] < key[x]
                      \/ key[y] = key[x] /\ (IF rev THEN y <= x ELSE y >= x)
         IN <<x>> \o OrderByDesc(S \ {x}, key, rev)

\* ORDER BY <expression> DESC over the groups S, Higher[x, y] saying that the
\* expression of x is above that of y; ties as in OrderByDesc
RECURSIVE OrderByHigher(_, _, _)
OrderByHigher(S, Higher, rev) ==
    IF S = {} THEN <<>>
    ELSE LET x == CHOOSE x \in S : \A y \in S \ {x} :
                      \/ Higher[x, y]
                      \/ ~Higher[y, x] /\ (IF rev THEN y < x ELSE y > x)
         IN <<x>> \o OrderByHigher(S \ {x}, Higher, rev)

\* LIMIT k
Limit(s, k) == SubSeq(s, 1, Min(k, Len(s)))

----------------------------------------------------------------------------
(* Message texts *)

\* A text is NULL or a string, given by its characters.  The characters of the
\* model are a space, a tab, a letter, and, as one leading character each, the
\* six reaction prefixes of the word query and one of them in lower case.
Reactions ==
    {"Loved \"", "Liked \"", "Disliked \"", "Laughed at \"", "Emphasized \"",
     "Questioned \""}

LowerReactions == {"loved \""}

NullText == [null |-> TRUE, chars |-> <<>>]

Str(s) == [null |-> FALSE, chars |-> s]

\* LENGTH(s) - LENGTH(REPLACE(s, ' ', ''))
RECURSIVE SpacesIn(_)
SpacesIn(s) ==
    IF s = <<>> THEN 0
    ELSE (CASE Head(s) = " " -> 1
            [] Head(s) = "Laughed at \"" -> 2
            [] Head(s) \in (Reactions \cup LowerReactions) \ {"Laughed at \""} -> 1
            [] OTHER -> 0) + SpacesIn(Tail(s))

\* TRIM(s): the string without its leading and trailing spaces
RECURSIVE Trim(_)
Trim(s) ==
    IF s = <<>> THEN <<>>
    ELSE IF Head(s) = " " THEN Trim(Tail(s))
    ELSE IF s[Len(s)] = " " THEN Trim(SubSeq(s, 1, Len(s) - 1))
    ELSE s

\* text LIKE '<reaction prefix>%' for one of the six prefixes; LIKE does not
\* tell upper from lower case
LikeReaction(s) == s # <<>> /\ s[1] \in Reactions \cup LowerReactions

\* d['words'] of imessage_wrapped.py
WordsImessage(rows) ==
    LET kept == SelectSeq(rows, LAMBDA r :
                    /\ r.is_from_me = 1
                    /\ ~r.text.null
                    /\ Trim(r.text.chars) # <<>>
                    /\ ~LikeReaction(r.text.chars))
    IN SeqSum([i \in 1..Len(kept) |->
                  kept[i].n * (SpacesIn(Trim(kept[i].text.chars)) + 1)])

\* d['words'] of whatsapp_wrapped.py: msg_count + extra_words
WordsWhatsapp(rows) ==
    LET kept == SelectSeq(rows, LAMBDA r :
                    /\ r.is_from_me = 1
                    /\ ~r.text.null
                    /\ Len(r.text.chars) > 0)
    IN CountRows(kept)
       + SeqSum([i \in 1..Len(kept) |-> kept[i].n * SpacesIn(kept[i].text.chars)])

----------------------------------------------------------------------------
(* The message store adapter: time stamps and the 1:1 / group split *)

\* the value each script compares with ts_start and ts_jun
Ts(st, r) == IF st = "imessage" THEN r.date + COCOA_OFFSET ELSE r.date

\* unix time of a row
UnixTs(r) == r.date + COCOA_OFFSET

\* strftime('%H', datetime(ts, 'unixepoch', 'localtime'))
HourOf(r) == ((UnixTs(r) + tz) \div 3600) % 24

\* a 1:1 filter that takes every chat with a participant
IsOneOnOneOrMore(st, c) ==
    /\ c \in DOMAIN chat[st]
    /\ IF st = "imessage" THEN chat[st][c].participant_count >= 1
                          ELSE chat[st][c].session_type <= 1

\* chat_participants ... WHERE participant_count = 1 / ZSESSIONTYPE = 0
IsOneOnOne(st, c) ==
    /\ c \in DOMAIN chat[st]
    /\ IF st = "imessage" THEN chat[st][c].participant_count = 1
                          ELSE chat[st][c].session_type = 0

\* group_chats: participant_count >= 2 / ZSESSIONTYPE = 1
IsGroup(st, c) ==
    /\ c \in DOMAIN chat[st]
    /\ IF st = "imessage" THEN chat[st][c].participant_count >= 2
                          ELSE chat[st][c].session_type = 1

one_on_one_messages(st) ==
    SelectSeq(message[st], LAMBDA r : IsOneOnOne(st, r.chat))

\* h.id of the message's handle / ZCONTACTJID of its session
HandleOf(st, r) == chat[st][r.chat].handle

\* PARTITION BY m.handle_id / PARTITION BY m.ZCHATSESSION
PartitionOf(st, r) == IF st = "imessage" THEN HandleOf(st, r) ELSE r.chat

----------------------------------------------------------------------------
(* analyze(ts_start, ts_jun): the aggregate queries *)

\* WHERE ts > ts_start AND the message is a 1:1 message
InWindow(st, r, start) == Ts(st, r) > start

OneOnOneInWindow(st, start) ==
    SelectSeq(one_on_one_messages(st), LAMBDA r : InWindow(st, r, start))

\* the window's messages read through the 1:1 filter
DirectInWindow(st, start) ==
    SelectSeq(message[st], LAMBDA r : IsOneOnOne(st, r.chat) /\ InWindow(st, r, start))

AllInWindow(st, start) ==
    SelectSeq(message[st], LAMBDA r : InWindow(st, r, start))

\* d['words']: the words of the window's sent messages
Words(st, start) ==
    IF st = "imessage" THEN WordsImessage(AllInWindow(st, start))
    ELSE WordsWhatsapp(AllInWindow(st, start))

HandlesOf(st, rows) == {HandleOf(st, rows[i]) : i \in 1..Len(rows)}

\* d['stats']: COUNT(*), sent, received, COUNT(DISTINCT handle)
Stats(st, start) ==
    LET rows == OneOnOneInWindow(st, start) IN
    [total    |-> CountRows(SelectSeq(rows, LAMBDA r : TRUE)),
     sent     |-> CountRows(SelectSeq(rows, LAMBDA r : r.is_from_me = 1)),
     received |-> CountRows(SelectSeq(rows, LAMBDA r : r.is_from_me = 0)),
     contacts |-> Cardinality(HandlesOf(st, rows))]

\* one row of d['top']: GROUP BY handle
TopRow(st, rows, h) ==
    [id       |-> h,
     total    |-> CountRows(SelectSeq(rows, LAMBDA r : HandleOf(st, r) = h)),
     sent     |-> CountRows(SelectSeq(rows, LAMBDA r : HandleOf(st, r) = h /\ r.is_from_me = 1)),
     received |-> CountRows(SelectSeq(rows, LAMBDA r : HandleOf(st, r) = h /\ r.is_from_me = 0))]

\* d['top']: ORDER BY t DESC LIMIT 20
TopLimit == 20

Top(st, start, rev) ==
    LET rows == OneOnOneInWindow(st, start)
        H    == HandlesOf(st, rows)
        ord  == OrderByDesc(H, [h \in H |-> TopRow(st, rows, h).total], rev)
    IN Limit([i \in 1..Len(ord) |-> TopRow(st, rows, ord[i])], TopLimit)

\* GROUP BY h over all messages of the window (1:1 and group alike)
HoursOf(rows) == {HourOf(rows[i]) : i \in 1..Len(rows)}

HourGroups(rows) ==
    [h \in HoursOf(rows) |-> CountRows(SelectSeq(rows, LAMBDA r : HourOf(r) = h))]

\* ORDER BY c DESC LIMIT 1: the hours the query may return
PeakHours(st, start) ==
    LET c == HourGroups(AllInWindow(st, start)) IN
    {h \in DOMAIN c : \A k \in DOMAIN c : c[k] <= c[h]}

\* the start of the rows the ghosted query reads
GhostedFrom(st, start) == IF st = "imessage" THEN start - 31536000 ELSE start

GhostedLimit == 5

\* d['ghosted']: HAVING b>10 AND a<3 ORDER BY b DESC LIMIT 5
Ghosted(st, start, jun, rev) ==
    LET from == GhostedFrom(st, start)
        rows == SelectSeq(one_on_one_messages(st), LAMBDA r : Ts(st, r) > from)
        H    == HandlesOf(st, rows)
        b    == [h \in H |-> CountRows(SelectSeq(rows, LAMBDA r :
                    HandleOf(st, r) = h /\ r.is_from_me = 0 /\ Ts(st, r) < jun))]
        a    == [h \in H |-> CountRows(SelectSeq(rows, LAMBDA r :
                    HandleOf(st, r) = h /\ r.is_from_me = 0 /\ Ts(st, r) >= jun))]
        Q    == {h \in H : b[h] > 10 /\ a[h] < 3}
        ord  == OrderByDesc(Q, [h \in Q |-> b[h]], rev)
    IN Limit([i \in 1..Len(ord) |-> [id |-> ord[i], b |-> b[ord[i]], a |-> a[ord[i]]]],
             GhostedLimit)

\* d['group_stats']: groups with a message in the window, their messages, and
\* those of them the user sent
GroupStats(st, start) ==
    LET rows == SelectSeq(AllInWindow(st, start), LAMBDA r : IsGroup(st, r.chat))
    IN [count |-> Cardinality({rows[i].chat : i \in 1..Len(rows)}),
        total |-> CountRows(SelectSeq(rows, LAMBDA r : TRUE)),
        sent  |-> CountRows(SelectSeq(rows, LAMBDA r : r.is_from_me = 1))]

LateLimit == 5

\* d['late']: messages before 5am, HAVING n>5 ORDER BY n DESC LIMIT 5
Late(st, start, rev) ==
    LET rows == SelectSeq(OneOnOneInWindow(st, start), LAMBDA r : HourOf(r) < 5)
        H    == HandlesOf(st, rows)
        n    == [h \in H |-> CountRows(SelectSeq(rows, LAMBDA r : HandleOf(st, r) = h))]
        Q    == {h \in H : n[h] > 5}
        ord  == OrderByDesc(Q, [h \in Q |-> n[h]], rev)
    IN Limit([i \in 1..Len(ord) |-> [id |-> ord[i], n |-> n[ord[i]]]], LateLimit)

HeatingLimit == 5

\* d['heating'] with HAVING h1>=20
HeatingFromTwenty(st, start, jun, rev) ==
    LET rows == OneOnOneInWindow(st, start)
        H    == HandlesOf(st, rows)
        h1   == [h \in H |-> CountRows(SelectSeq(rows, LAMBDA r :
                    HandleOf(st, r) = h /\ Ts(st, r) < jun))]
        h2   == [h \in H |-> CountRows(SelectSeq(rows, LAMBDA r :
                    HandleOf(st, r) = h /\ Ts(st, r) >= jun))]
        Q    == {h \in H : h1[h] >= 20 /\ 2 * h2[h] > 3 * h1[h]}
        ord  == OrderByDesc(Q, [h \in Q |-> h2[h] - h1[h]], rev)
    IN Limit([i \in 1..Len(ord) |-> [id |-> ord[i], h1 |-> h1[ord[i]], h2 |-> h2[ord[i]]]],
             HeatingLimit)

\* d['heating']: HAVING h1>20 AND h2>h1*1.5 ORDER BY (h2-h1) DESC LIMIT 5
Heating(st, start, jun, rev) ==
    LET rows == OneOnOneInWindow(st, start)
        H    == HandlesOf(st, rows)
        h1   == [h \in H |-> CountRows(SelectSeq(rows, LAMBDA r :
                    HandleOf(st, r) = h /\ Ts(st, r) < jun))]
        h2   == [h \in H |-> CountRows(SelectSeq(rows, LAMBDA r :
                    HandleOf(st, r) = h /\ Ts(st, r) >= jun))]
        Q    == {h \in H : h1[h] > 20 /\ 2 * h2[h] > 3 * h1[h]}
        ord  == OrderByDesc(Q, [h \in Q |-> h2[h] - h1[h]], rev)
    IN Limit([i \in 1..Len(ord) |-> [id |-> ord[i], h1 |-> h1[ord[i]], h2 |-> h2[ord[i]]]],
             HeatingLimit)

FanLimit == 5

\* d['fan'] (me = 0) and d['simp'] (me = 1): the side `big` of the handle
\* against the other side `small`, HAVING big>small*2 AND (big+small)>100
\* ORDER BY (big*1.0/NULLIF(small,0)) DESC LIMIT 5; a NULL sorts last
Lopsided(st, start, me, rev) ==
    LET rows  == OneOnOneInWindow(st, start)
        H     == HandlesOf(st, rows)
        big   == [h \in H |-> CountRows(SelectSeq(rows, LAMBDA r :
                     HandleOf(st, r) = h /\ r.is_from_me = me))]
        small == [h \in H |-> CountRows(SelectSeq(rows, LAMBDA r :
                     HandleOf(st, r) = h /\ r.is_from_me = 1 - me))]
        Q     == {h \in H : big[h] > small[h] * 2 /\ big[h] + small[h] > 100}
        ord   == OrderByHigher(Q, [x \in Q, y \in Q |->
                     /\ small[x] # 0
                     /\ (small[y] = 0 \/ big[x] * small[y] > big[y] * small[x])], rev)
    IN Limit([i \in 1..Len(ord) |->
                 [id |-> ord[i], big |-> big[ord[i]], small |-> small[ord[i]]]], FanLimit)

Fan(st, start, rev) == Lopsided(st, start, 0, rev)

Simp(st, start, rev) == Lopsided(st, start, 1, rev)

----------------------------------------------------------------------------
(* LAG(...) OVER (PARTITION BY ... ORDER BY date) *)

\* row i precedes row j in the window order; rows of equal date keep scan order
Before(F, i, j) == F[i].date < F[j].date \/ (F[i].date = F[j].date /\ i < j)

\* index of the row LAG reads for row j, 0 when there is none (pt IS NULL)
Lag(st, F, j) ==
    LET C == {i \in 1..Len(F) : /\ i # j
                                /\ PartitionOf(st, F[i]) = PartitionOf(st, F[j])
                                /\ Before(F, i, j)}
    IN IF C = {} THEN 0
       ELSE CHOOSE i \in C : \A k \in C : k = i \/ Before(F, k, i)

\* reply rows with the lower bound of the gap included
ReplyRowsGapFrom10(st, F) ==
    {j \in 1..Len(F) :
        LET l == Lag(st, F, j)
        IN  /\ F[j].is_from_me = 1
            /\ l # 0
            /\ F[l].is_from_me = 0
            /\ F[j].date - F[l].date < 86400
            /\ F[j].date - F[l].date >= 10}

\* the rows of g (F, with LAG) that pass
\* WHERE is_from_me=1 AND pf=0 AND (ts-pt)<86400 AND (ts-pt)>10
ReplyRowsOf(st, F) ==
    {j \in 1..Len(F) :
        LET l == Lag(st, F, j) IN
        /\ F[j].is_from_me = 1
        /\ l # 0
        /\ F[l].is_from_me = 0
        /\ F[j].date - F[l].date < 86400
        /\ F[j].date - F[l].date > 10}

ReplyRows(st, start) == ReplyRowsOf(st, OneOnOneInWindow(st, start))

\* SUM(ts-pt) over those rows
ReplyGapSumOf(st, F, R) == SetSum(R, [j \in R |-> F[j].date - F[Lag(st, F, j)].date])

ReplyGapSum(st, start) ==
    ReplyGapSumOf(st, OneOnOneInWindow(st, start), ReplyRows(st, start))

\* the gaps' total converted to minutes without dividing by their number
RespOfTotal(k, s) == IF k = 0 \/ s = 0 THEN 30 ELSE s \div 60

\* the minutes of the mean gap with no default for the empty case
RespOfNoDefault(k, s) == IF k = 0 THEN 0 ELSE s \div (60 * k)

\* d['resp'] = int(r[0][0] or 30), r[0][0] = AVG(ts-pt)/60.0
RespOf(k, s) == IF k = 0 \/ s = 0 THEN 30 ELSE s \div (60 * k)

Resp(st, start) ==
    RespOf(Cardinality(ReplyRows(st, start)), ReplyGapSum(st, start))

\* session openers with a gap of exactly four hours opening a session
SessionRowsGapFrom14400(st, F) ==
    {j \in 1..Len(F) :
        LET l == Lag(st, F, j)
        IN  l = 0 \/ F[j].date - F[l].date >= 14400}

\* the rows of convos (F, with LAG) that pass
\* WHERE prev_ts IS NULL OR (ts - prev_ts) > 14400
SessionRowsOf(st, F) ==
    {j \in 1..Len(F) :
        LET l == Lag(st, F, j) IN
        \/ l = 0
        \/ F[j].date - F[l].date > 14400}

SessionRows(st, start) == SessionRowsOf(st, OneOnOneInWindow(st, start))

\* SUM(CASE WHEN is_from_me=1 THEN 1 ELSE 0 END) as you_started
YouStartedOf(F, S) == Cardinality({j \in S : F[j].is_from_me = 1})

YouStarted(st, start) ==
    YouStartedOf(OneOnOneInWindow(st, start), SessionRows(st, start))

\* Python's round((a / b) * 100): round half to even
RoundPct(a, b) ==
    LET q == (100 * a) \div b
        r == (100 * a) % b
    IN IF 2 * r < b THEN q
       ELSE IF 2 * r > b THEN q + 1
       ELSE IF q % 2 = 0 THEN q ELSE q + 1

\* the starter percent with 0 for the case of no session
StarterPctNoDefault(you_started, total) ==
    IF total > 0 THEN RoundPct(you_started, total) ELSE 0

\* d['starter_pct']
StarterPctOf(you_started, total) ==
    IF total > 0 THEN RoundPct(you_started, total) ELSE 50

StarterPct(st, start) ==
    StarterPctOf(YouStarted(st, start), Cardinality(SessionRows(st, start)))

----------------------------------------------------------------------------
(* Days: local dates as day numbers since 1970-01-01, and daily activity *)

\* strftime('%w', ...): 0 is Sunday, and 1970-01-01 was a Thursday
DayOfWeek(r) == (((UnixTs(r) + tz) \div 86400) + 4) % 7

\* DATE(datetime(ts, 'unixepoch', 'localtime')), as a day number
DateOf(r) == (UnixTs(r) + tz) \div 86400

\* the rows of a result set
RowsOf(rows) == {rows[i] : i \in 1..Len(rows)}

\* SELECT K, COUNT(*) ... GROUP BY K, the function K giving each row's key
GroupCounts(rows, K) ==
    [k \in {K[rows[i]] : i \in 1..Len(rows)} |->
        CountRows(SelectSeq(rows, LAMBDA r : K[r] = k))]

\* datetime(y, 1, 1) as a day number (Gregorian leap years)
Jan1(y) == 365 * (y - 1970) + ((y - 1969) \div 4) - ((y - 1901) \div 100) + ((y - 1601) \div 400)

\* datetime(y, 12, 31) as a day number
Dec31(y) == Jan1(y + 1) - 1

\* .year of a date
YearOf(day) == CHOOSE y \in 1970..2100 : Jan1(y) <= day /\ day < Jan1(y + 1)

\* d['daily_counts'] of whatsapp_wrapped.py: date -> COUNT(*) over the messages
\* after the window start
DailyMap(st, start) ==
    LET rows == AllInWindow(st, start)
    IN GroupCounts(rows, [r \in RowsOf(rows) |-> DateOf(r)])

\* max(all_counts)
MaxOf(S) == CHOOSE x \in S : \A y \in S : y <= x

\* while str(check_date) in dates_with_msgs: current_streak += 1; check_date -= 1 day
RECURSIVE StreakBack(_, _)
StreakBack(dates, check_date) ==
    IF check_date \in dates THEN 1 + StreakBack(dates, check_date - 1) ELSE 0

\* the walk with no look at yesterday when today has no message
CurrentStreakFromToday(dates, day) == StreakBack(dates, day)

\* d['current_streak']: back from today, or from yesterday if today has no message
CurrentStreak(dates, day) ==
    StreakBack(dates, IF day \notin dates THEN day - 1 ELSE day)

\* sorted(dates_with_msgs)
RECURSIVE SortedDates(_)
SortedDates(dates) ==
    IF dates = {} THEN <<>>
    ELSE LET x == CHOOSE x \in dates : \A y \in dates : x <= y
         IN <<x>> \o SortedDates(dates \ {x})

\* the loop with a run's first day left uncounted
RECURSIVE LongestFromZero(_, _, _, _)
LongestFromZero(sorted, i, current, longest) ==
    IF i > Len(sorted) THEN longest
    ELSE LET cur == IF i > 1 /\ sorted[i] - sorted[i - 1] = 1 THEN current + 1 ELSE 0
         IN LongestFromZero(sorted, i + 1, cur, IF cur > longest THEN cur ELSE longest)

\* the loop over sorted_dates from position i on: current is the run that ends
\* at position i - 1 and longest the longest run so far
RECURSIVE LongestFrom(_, _, _, _)
LongestFrom(sorted, i, current, longest) ==
    IF i > Len(sorted) THEN longest
    ELSE LET cur == IF i > 1 /\ sorted[i] - sorted[i - 1] = 1 THEN current + 1 ELSE 1
         IN LongestFrom(sorted, i + 1, cur, IF cur > longest THEN cur ELSE longest)

\* d['longest_streak']
LongestStreak(dates) == LongestFrom(SortedDates(dates), 1, 0, 0)

TopDaysLimit == 5

\* sorted(d['daily_counts'].items(), key=lambda x: -x[1])[:5]: a stable sort of
\* the dates, which the query returned in ascending order
TopDays(daily) ==
    LET dates == DOMAIN daily
        rank  == [x \in dates |->
                     Cardinality({y \in dates : \/ daily[y] > daily[x]
                                                \/ daily[y] = daily[x] /\ y < x})]
    IN Limit([q \in 1..Cardinality(dates) |->
                 LET x == CHOOSE x \in dates : rank[x] = q - 1
                 IN [date |-> x, count |-> daily[x]]],
             TopDaysLimit)

\* GROUP BY d ORDER BY c DESC LIMIT 1 over the dates: the rows the busiest-day
\* query may return
BusiestDays(st, start) ==
    LET daily == DailyMap(st, start)
    IN {[date |-> x, count |-> daily[x]] :
           x \in {x \in DOMAIN daily : \A y \in DOMAIN daily : daily[y] <= daily[x]}}

\* d['busiest_day'] = None
NoDay == <<>>

\* GROUP BY d ORDER BY 2 DESC LIMIT 1 over strftime('%w'): the weekdays the
\* query may return
PeakDays(st, start) ==
    LET rows == AllInWindow(st, start)
        c    == GroupCounts(rows, [r \in RowsOf(rows) |-> DayOfWeek(r)])
    IN {w \in DOMAIN c : \A k \in DOMAIN c : c[k] <= c[w]}

\* d['day'] = '???'
UnknownDay == -1

\* the display name of a chat (display_name / ZPARTNERNAME), "" when it has none
NameOf(st, c) ==
    IF "display_name" \in DOMAIN chat[st][c] THEN chat[st][c].display_name ELSE ""

\* SELECT h.id FROM chat_handle_join ... WHERE chat_id = c LIMIT 2: the results
\* the query may return, the participants of chat c being numbered from 1
FallbackHandles(st, c) ==
    LET P == 1..chat[st][c].participant_count
    IN IF Cardinality(P) <= 1 THEN {[i \in 1..Cardinality(P) |-> 1]}
       ELSE {<<x, y>> : x \in P, y \in P} \ {<<x, x>> : x \in P}

\* the chats the fallback query is run for: iMessage groups with no
\* display_name
NeedsFallback(st, c) == st = "imessage" /\ IsGroup(st, c) /\ NameOf(st, c) = ""

\* the results the fallback query may return, one for each of these chats
FallbackNames(st) ==
    LET N == {c \in DOMAIN chat[st] : NeedsFallback(st, c)}
    IN {names \in [N -> UNION {FallbackHandles(st, c) : c \in N}] :
           \A c \in N : names[c] \in FallbackHandles(st, c)}

GroupLimit == 5

\* d['group_leaderboard']: the groups' messages of the window, GROUP BY chat
\* ORDER BY msg_count DESC LIMIT 5; names[c] is what the fallback query
\* returned for chat c
GroupLeaderboard(st, start, rev, names) ==
    LET rows == SelectSeq(AllInWindow(st, start), LAMBDA r : IsGroup(st, r.chat))
        C    == {rows[i].chat : i \in 1..Len(rows)}
        n    == [c \in C |-> CountRows(SelectSeq(rows, LAMBDA r : r.chat = c))]
        ord  == Limit(OrderByDesc(C, n, rev), GroupLimit)
    IN [i \in 1..Len(ord) |->
           [chat_id   |-> ord[i],
            name      |-> IF NameOf(st, ord[i]) # "" THEN NameOf(st, ord[i])
                          ELSE IF st = "imessage" THEN names[ord[i]]
                          ELSE "Unnamed Group",
            msg_count |-> n[ord[i]]]]

\* the contribution graph data of analyze() in whatsapp_wrapped.py
Activity(st, start, day) ==
    LET daily == DailyMap(st, start)
        dates == DOMAIN daily
    IN IF dates # {}
       THEN [daily_counts   |-> daily,
             top_days       |-> TopDays(daily),
             max_daily      |-> MaxOf({daily[x] : x \in dates}),
             active_days    |-> Cardinality({x \in dates : daily[x] > 0}),
             current_streak |-> CurrentStreak(dates, day),
             longest_streak |-> LongestStreak(dates)]
       ELSE [daily_counts   |-> <<>>,
             top_days       |-> <<>>,
             max_daily      |-> 0,
             active_days    |-> 0,
             current_streak |-> 0,
             longest_streak |-> 0]

----------------------------------------------------------------------------
(* Personality: ratio = s[1] / (s[2] + 1), then the if/elif chain *)

\* a classifier that looks at the response time before the peak hour
PersonalityRespFirst(hour, resp, sent, received, starter_pct) ==
    IF resp < 5 THEN "TERMINALLY ONLINE"
    ELSE IF hour < 5 \/ hour > 22 THEN "NOCTURNAL MENACE"
    ELSE IF resp > 120 THEN "TOO COOL TO REPLY"
    ELSE IF 2 * sent < received + 1 THEN "POPULAR (ALLEGEDLY)"
    ELSE IF sent > 2 * (received + 1) THEN "THE YAPPER"
    ELSE IF starter_pct > 65 THEN "CONVERSATION STARTER"
    ELSE IF starter_pct < 35 THEN "THE WAITER"
    ELSE "SUSPICIOUSLY NORMAL"

Personality(hour, resp, sent, received, starter_pct) ==
    IF hour < 5 \/ hour > 22 THEN "NOCTURNAL MENACE"
    ELSE IF resp < 5 THEN "TERMINALLY ONLINE"
    ELSE IF resp > 120 THEN "TOO COOL TO REPLY"
    ELSE IF 2 * sent < received + 1 THEN "POPULAR (ALLEGEDLY)"
    ELSE IF sent > 2 * (received + 1) THEN "THE YAPPER"
    ELSE IF starter_pct > 65 THEN "CONVERSATION STARTER"
    ELSE IF starter_pct < 35 THEN "THE WAITER"
    ELSE "SUSPICIOUSLY NORMAL"

----------------------------------------------------------------------------
(* main() of the wrapped scripts *)

Stores == {"imessage", "whatsapp"}
Wrapped == {"imessage_wrapped", "whatsapp_wrapped"}
Dashboards == {"texts_dashboard", "texts_dashboard_enhanced"}

Running == [exit |-> -1, msg |-> ""]

\* check_access() that exits for a missing store only
CheckAccessMissingOnly ==
    /\ pc = "check_access"
    /\ prog \in Wrapped
    /\ LET a == access[StoreOf(prog)] IN
       IF a = "missing" THEN
           /\ out' = [exit |-> 1, msg |-> "FATAL"]
           /\ pc' = "exit"
       ELSE
           /\ out' = out
           /\ pc' = "main"
    /\ UNCHANGED <<prog, use_2024, access, chat, message, tz, ts_start, ts_jun, d,
                   has, data, merged, today, html>>

\* check_access(): sys.exit(1) when the store is missing or unreadable
CheckAccess ==
    /\ pc = "check_access"
    /\ prog \in Wrapped
    /\ LET a == access[StoreOf(prog)] IN
       IF a = "missing" THEN
           /\ out' = [exit |-> 1, msg |-> "FATAL"]
           /\ pc' = "exit"
       ELSE IF a = "denied" THEN
           /\ out' = [exit |-> 1, msg |-> "ACCESS DENIED"]
           /\ pc' = "exit"
       ELSE
           /\ out' = out
           /\ pc' = "main"
    /\ UNCHANGED <<prog, use_2024, access, chat, message, tz, ts_start, ts_jun, d,
                   has, data, merged, today, html>>

Start2025(st) == IF st = "imessage" THEN TS_2025 ELSE WA_TS_2025
Window2025(st) == IF st = "imessage" THEN <<TS_2025, TS_JUN_2025>>
                                     ELSE <<WA_TS_2025, WA_TS_JUN_2025>>
Window2024(st) == IF st = "imessage" THEN <<TS_2024, TS_JUN_2024>>
                                     ELSE <<WA_TS_2024, WA_TS_JUN_2024>>

\* test = SELECT COUNT(*) FROM message WHERE ts > TS_2025
Test2025(st) == CountRows(SelectSeq(message[st], LAMBDA r : Ts(st, r) > Start2025(st)))

\* the selection with the test query counting 1:1 messages only
SelectedWindowDirect(st) ==
    IF use_2024 THEN Window2024(st)
    ELSE IF CountRows(SelectSeq(one_on_one_messages(st),
                                LAMBDA r : Ts(st, r) > Start2025(st))) < 100
         THEN Window2024(st)
    ELSE Window2025(st)

\* ts_start, ts_jun = ...; if test < 100 and not args.use_2024: fall back to 2024
SelectedWindow(st) ==
    IF use_2024 THEN Window2024(st)
    ELSE IF Test2025(st) < 100 THEN Window2024(st)
    ELSE Window2025(st)

SelectWindow ==
    /\ pc = "main"
    /\ prog \in Wrapped
    /\ ts_start' = SelectedWindow(StoreOf(prog))[1]
    /\ ts_jun' = SelectedWindow(StoreOf(prog))[2]
    /\ pc' = "analyze"
    /\ UNCHANGED <<prog, use_2024, access, chat, message, tz, out, d, has, data, merged,
                   today, html>>

\* the dictionary analyze() returns; hour is the row the peak-hour query
\* returned and rev the order in which the store returned tied groups
Analyze ==
    /\ pc = "analyze"
    /\ prog \in Wrapped
    /\ LET st       == StoreOf(prog)
           peak     == PeakHours(st, ts_start)
           stats    == Stats(st, ts_start)
           F        == OneOnOneInWindow(st, ts_start)
           R        == ReplyRowsOf(st, F)
           S        == SessionRowsOf(st, F)
           resp     == RespOf(Cardinality(R), ReplyGapSumOf(st, F, R))
           starter  == StarterPctOf(YouStartedOf(F, S), Cardinality(S))
           groups   == GroupStats(st, ts_start)
           words    == Words(st, ts_start)
           activity == IF st = "whatsapp" THEN Activity(st, ts_start, today) ELSE <<>>
       IN \E rev \in BOOLEAN :
            LET top     == Top(st, ts_start, rev)
                ghosted == Ghosted(st, ts_start, ts_jun, rev)
                late    == Late(st, ts_start, rev)
                heating == Heating(st, ts_start, ts_jun, rev)
                fan     == Fan(st, ts_start, rev)
                simp    == Simp(st, ts_start, rev)
            IN \E hour \in (IF peak = {} THEN {12} ELSE peak),
                  day \in (IF peak = {} THEN {UnknownDay} ELSE PeakDays(st, ts_start)),
                  busiest \in (IF peak = {} THEN {NoDay} ELSE BusiestDays(st, ts_start)),
                  names \in FallbackNames(st) :
                 d' =
                      [stats       |-> stats,
                       day         |-> day,
                       busiest_day |-> busiest,
                       group_leaderboard |-> GroupLeaderboard(st, ts_start, rev, names),
                       top         |-> top,
                       late        |-> late,
                       hour        |-> hour,
                       ghosted     |-> ghosted,
                       heating     |-> heating,
                       fan         |-> fan,
                       simp        |-> simp,
                       resp        |-> resp,
                       starter_pct |-> starter,
                       personality |-> Personality(hour, resp, stats.sent,
                                                   stats.received, starter),
                       group_stats |-> groups,
                       words       |-> words,
                       activity    |-> activity]
    /\ pc' = "gen_html"
    /\ UNCHANGED <<prog, use_2024, access, chat, message, tz, out, ts_start, ts_jun,
                   has, data, merged, today, html>>

\* round(a/b) of Python for integers a >= 0 and b > 0: the nearest integer, a
\* tie going to the even one (a tie is a binary fraction, so the float is exact)
RoundHalfEven(a, b) ==
    LET q == a \div b
        r == a % b
    IN IF 2 * r < b THEN q
       ELSE IF 2 * r > b THEN q + 1
       ELSE IF q % 2 = 0 THEN q ELSE q + 1

\* the slide of the first entry of d['fan'] or d['simp'], none when the list is
\* empty: ratio = round(f[1]/(f[2]+1), 1), in tenths
LopsidedSlide(list) ==
    IF list = <<>> THEN <<>>
    ELSE <<[id    |-> list[1].id,
            ratio |-> RoundHalfEven(10 * list[1].big, list[1].small + 1)]>>

\* the slides of gen_html(d, contacts, path) that the model follows
Slides(res) ==
    [fan  |-> LopsidedSlide(res.fan),
     simp |-> LopsidedSlide(res.simp)]

\* the Sunday on or before day: 1970-01-01 was a Thursday
SundayOnOrBefore(day) == day - ((day + 4) % 7)

\* a level that puts a count of exactly a quarter, a half or three quarters of
\* the maximum into the higher bucket
LevelOpenAbove(count, max_count) ==
    IF count = 0 THEN 0
    ELSE IF 4 * count < max_count THEN 1
    ELSE IF 2 * count < max_count THEN 2
    ELSE IF 4 * count < 3 * max_count THEN 3
    ELSE 4

\* the intensity level: count <= max_count * 0.25, * 0.5, * 0.75 (getLevel of the
\* enhanced dashboard compares count / max with the same three fractions)
Level(count, max_count) ==
    IF count = 0 THEN 0
    ELSE IF 4 * count <= max_count THEN 1
    ELSE IF 2 * count <= max_count THEN 2
    ELSE IF 4 * count <= 3 * max_count THEN 3
    ELSE 4

\* (date_str, count, level, in_year) of one day of the calendar
CalCell(day, daily, max_count, year_start, year_end) ==
    LET count == IF day \in DOMAIN daily THEN daily[day] ELSE 0
    IN [date    |-> day,
        count   |-> count,
        level   |-> Level(count, max_count),
        in_year |-> year_start <= day /\ day <= year_end]

\* while current_date <= year_end + timedelta(days=6): a week of seven cells;
\* week_idx += 1; if week_idx > 53: break
RECURSIVE CalWeeks(_, _, _, _, _, _)
CalWeeks(current_date, week_idx, daily, max_count, year_start, year_end) ==
    IF current_date <= year_end + 6
    THEN <<[i \in 1..7 |-> CalCell(current_date + i - 1, daily, max_count,
                                   year_start, year_end)]>>
         \o (IF week_idx + 1 > 53 THEN <<>>
             ELSE CalWeeks(current_date + 7, week_idx + 1, daily, max_count,
                           year_start, year_end))
    ELSE <<>>

\* cal_cells of the contribution slide on a run of the local date day: year = now.year
CalCells(res, day) ==
    LET year == YearOf(day)
    IN CalWeeks(SundayOnOrBefore(Jan1(year)), 0, res.daily_counts,
                IF res.max_daily > 0 THEN res.max_daily ELSE 1,
                Jan1(year), Dec31(year))

\* a cell as the page shows it: its level when in_year, else an empty cell
ShownCell(cell) ==
    IF cell.in_year
    THEN [date |-> cell.date, empty |-> FALSE, level |-> cell.level, count |-> cell.count]
    ELSE [date |-> cell.date, empty |-> TRUE, level |-> 0, count |-> 0]

\* the contribution slide of whatsapp_wrapped.py: none when d['daily_counts'] is empty
ContribSlide(res, day) ==
    IF DOMAIN res.daily_counts = {} THEN <<>>
    ELSE LET cells == CalCells(res, day)
         IN [w \in 1..Len(cells) |-> [i \in 1..7 |-> ShownCell(cells[w][i])]]

\* gen_html(data, contacts, args.output); subprocess.run(['open', args.output])
GenHtml ==
    /\ pc = "gen_html"
    /\ prog \in Wrapped
    /\ html' = [fan      |-> Slides(d).fan,
                simp     |-> Slides(d).simp,
                calendar |-> IF prog = "whatsapp_wrapped"
                             THEN ContribSlide(d.activity, today) ELSE <<>>]
    /\ pc' = "done"
    /\ out' = [exit |-> 0, msg |-> "Done"]
    /\ UNCHANGED <<prog, use_2024, access, chat, message, tz, ts_start, ts_jun, d,
                   has, data, merged, today>>

\* the tail of analyze() on its own: d['personality'] from d['hour'], d['resp'],
\* d['stats'] and d['starter_pct']
Classify ==
    /\ pc = "personality"
    /\ d' = [d EXCEPT !.personality =
                 Personality(d.hour, d.resp, d.stats.sent, d.stats.received,
                             d.starter_pct)]
    /\ pc' = "classified"
    /\ UNCHANGED <<prog, use_2024, access, chat, message, tz, out, ts_start, ts_jun,
                   has, data, merged, today, html>>

----------------------------------------------------------------------------
(* The dashboards: get_all_imessage_data, get_all_whatsapp_data *)

\* ts_imessage / ts_whatsapp of main()
DashStart(st) ==
    IF use_2024 THEN (IF st = "imessage" THEN TS_2024 ELSE WA_TS_2024)
    ELSE (IF st = "imessage" THEN TS_2025 ELSE WA_TS_2025)

\* the rows of the contact query: 1:1 rows of the window whose handle is no
\* short code (the iMessage queries only)
ContactRows(st, start) ==
    SelectSeq(OneOnOneInWindow(st, start),
              LAMBDA r : ~(st = "imessage" /\ chat[st][r.chat].short_code))

\* a contact record that takes the late-night column for the received one
ContactRecordShifted(st, rows, h) ==
    [id         |-> h,
     total      |-> CountRows(SelectSeq(rows, LAMBDA r : HandleOf(st, r) = h)),
     sent       |-> CountRows(SelectSeq(rows, LAMBDA r : HandleOf(st, r) = h /\ r.is_from_me = 1)),
     received   |-> CountRows(SelectSeq(rows, LAMBDA r : HandleOf(st, r) = h /\ HourOf(r) < 5)),
     late_night |-> CountRows(SelectSeq(rows, LAMBDA r : HandleOf(st, r) = h /\ r.is_from_me = 0)),
     ratio      |-> 0,
     platform   |-> st]

\* 'ratio': round(sent / max(received, 1), 2), in hundredths
Ratio(sent, received) ==
    RoundHalfEven(100 * sent, IF received > 1 THEN received ELSE 1)

\* the contact record with ratio = sent/(received+1)
ContactRecordSmoothed(st, rows, h) ==
    LET sent     == CountRows(SelectSeq(rows, LAMBDA r :
                        HandleOf(st, r) = h /\ r.is_from_me = 1))
        received == CountRows(SelectSeq(rows, LAMBDA r :
                        HandleOf(st, r) = h /\ r.is_from_me = 0))
    IN [id         |-> h,
        total      |-> CountRows(SelectSeq(rows, LAMBDA r : HandleOf(st, r) = h)),
        sent       |-> sent,
        received   |-> received,
        late_night |-> CountRows(SelectSeq(rows, LAMBDA r :
                           HandleOf(st, r) = h /\ HourOf(r) < 5)),
        ratio      |-> RoundHalfEven(100 * sent, received + 1),
        platform   |-> st]

\* a record of data['contacts']
ContactRecord(st, rows, h) ==
    LET sent     == CountRows(SelectSeq(rows, LAMBDA r :
                        HandleOf(st, r) = h /\ r.is_from_me = 1))
        received == CountRows(SelectSeq(rows, LAMBDA r :
                        HandleOf(st, r) = h /\ r.is_from_me = 0))
    IN [id         |-> h,
        total      |-> CountRows(SelectSeq(rows, LAMBDA r : HandleOf(st, r) = h)),
        sent       |-> sent,
        received   |-> received,
        late_night |-> CountRows(SelectSeq(rows, LAMBDA r :
                           HandleOf(st, r) = h /\ HourOf(r) < 5)),
        ratio      |-> Ratio(sent, received),
        platform   |-> st]

\* data['contacts']: GROUP BY handle ORDER BY total DESC
Contacts(st, start, rev) ==
    LET rows == ContactRows(st, start)
        H    == HandlesOf(st, rows)
        rec  == [h \in H |-> ContactRecord(st, rows, h)]
        ord  == OrderByDesc(H, [h \in H |-> rec[h].total], rev)
    IN [i \in 1..Len(ord) |-> rec[ord[i]]]

\* the rows of the group chat query
GroupRows(st, start) ==
    SelectSeq(AllInWindow(st, start), LAMBDA r : IsGroup(st, r.chat))

\* one element of data['group_chats']; texts_dashboard.py selects no received
GroupRecord(p, st, rows, c) ==
    LET base == [id       |-> c,
                 total    |-> CountRows(SelectSeq(rows, LAMBDA r : r.chat = c)),
                 members  |-> IF st = "imessage" THEN chat[st][c].participant_count ELSE 0,
                 sent     |-> CountRows(SelectSeq(rows, LAMBDA r : r.chat = c /\ r.is_from_me = 1)),
                 platform |-> st]
    IN IF p = "texts_dashboard" THEN base
       ELSE [id |-> base.id, total |-> base.total, members |-> base.members,
             sent |-> base.sent, platform |-> base.platform,
             received |-> CountRows(SelectSeq(rows, LAMBDA r : r.chat = c /\ r.is_from_me = 0))]

\* data['group_chats']: GROUP BY chat ORDER BY msg_count DESC
GroupChats(p, st, start, rev) ==
    LET rows == GroupRows(st, start)
        C    == {rows[i].chat : i \in 1..Len(rows)}
        rec  == [c \in C |-> GroupRecord(p, st, rows, c)]
        ord  == OrderByDesc(C, [c \in C |-> rec[c].total], rev)
    IN [i \in 1..Len(ord) |-> rec[ord[i]]]

\* data['daily_counts']; the enhanced dashboard's WhatsApp query selects the
\* total only and stores 0 for sent and received
DailyCounts(p, st, start) ==
    LET rows == AllInWindow(st, start)
        D    == {DateOf(rows[i]) : i \in 1..Len(rows)}
        zero == p = "texts_dashboard_enhanced" /\ st = "whatsapp"
    IN [day \in D |->
          [total    |-> CountRows(SelectSeq(rows, LAMBDA r : DateOf(r) = day)),
           sent     |-> IF zero THEN 0
                        ELSE CountRows(SelectSeq(rows, LAMBDA r : DateOf(r) = day /\ r.is_from_me = 1)),
           received |-> IF zero THEN 0
                        ELSE CountRows(SelectSeq(rows, LAMBDA r : DateOf(r) = day /\ r.is_from_me = 0))]]

\* ORDER BY ts: rows of equal ts keep scan order
OrderByTs(F) ==
    [q \in 1..Len(F) |->
        F[CHOOSE i \in 1..Len(F) :
              Cardinality({k \in 1..Len(F) : Before(F, k, i)}) = q - 1]]

\* position of the record with the given id in a list, 0 when it has none
IndexOf(list, id) ==
    IF \E i \in 1..Len(list) : list[i].id = id
    THEN CHOOSE i \in 1..Len(list) : list[i].id = id
    ELSE 0

\* the [timestamp, index, is_sent, is_group] entries of the rows F, one per
\* stored message, idx giving each row's index (0 when the row has none)
RECURSIVE MessageEntries(_, _, _)
MessageEntries(F, idx, is_group) ==
    IF F = <<>> THEN <<>>
    ELSE LET r == Head(F)
             e == <<UnixTs(r), idx[r] - 1, r.is_from_me, is_group>>
         IN (IF idx[r] = 0 THEN <<>> ELSE [i \in 1..r.n |-> e])
                \o MessageEntries(Tail(F), idx, is_group)

\* data['messages'] of the enhanced dashboard: the contacts' messages, then
\* the groups', groups being indexed after the contacts
Messages(st, start, contacts, groups) ==
    LET C == OrderByTs(ContactRows(st, start))
        G == OrderByTs(GroupRows(st, start))
    IN MessageEntries(C, [r \in RowsOf(C) |-> IndexOf(contacts, HandleOf(st, r))], 0)
       \o MessageEntries(G, [r \in RowsOf(G) |->
                                IF IndexOf(groups, r.chat) = 0 THEN 0
                                ELSE Len(contacts) + IndexOf(groups, r.chat)], 1)

\* the dictionaries main() starts from
EmptyData ==
    [contacts |-> <<>>, group_chats |-> <<>>, messages |-> <<>>, daily_counts |-> <<>>,
     hourly_counts |-> <<>>, day_of_week_counts |-> <<>>]

\* what get_all_<store>_data(ts_start, contacts) of dashboard p returns
StoreData(p, st, start, rev) ==
    LET contacts == Contacts(st, start, rev)
        groups   == GroupChats(p, st, start, rev)
        all      == AllInWindow(st, start)
    IN [contacts           |-> contacts,
        group_chats        |-> groups,
        messages           |-> IF p = "texts_dashboard" THEN <<>>
                               ELSE Messages(st, start, contacts, groups),
        daily_counts       |-> DailyCounts(p, st, start),
        hourly_counts      |-> GroupCounts(all, [r \in RowsOf(all) |-> HourOf(r)]),
        day_of_week_counts |-> GroupCounts(all, [r \in RowsOf(all) |-> DayOfWeek(r)])]

----------------------------------------------------------------------------
(* The dashboards: merging the two stores, and main() *)

\* list.sort(key=lambda x: -x['total']): a stable sort
SortByTotal(s) ==
    [q \in 1..Len(s) |->
        s[CHOOSE i \in 1..Len(s) :
              Cardinality({k \in 1..Len(s) :
                              \/ s[k].total > s[i].total
                              \/ s[k].total = s[i].total /\ k < i}) = q - 1]]

\* dict.get(k, 0)
Get(f, k) == IF k \in DOMAIN f THEN f[k] ELSE 0

NoCounts == [total |-> 0, sent |-> 0, received |-> 0]

\* merge_all_data(imessage_data, whatsapp_data, has_imessage, has_whatsapp)
MergeAll(im, wa, has_im, has_wa) ==
    LET contacts == SortByTotal((IF has_im THEN im.contacts ELSE <<>>)
                                \o (IF has_wa THEN wa.contacts ELSE <<>>))
        groups   == SortByTotal((IF has_im THEN im.group_chats ELSE <<>>)
                                \o (IF has_wa THEN wa.group_chats ELSE <<>>))
        dates    == (IF has_im THEN DOMAIN im.daily_counts ELSE {})
                    \cup (IF has_wa THEN DOMAIN wa.daily_counts ELSE {})
        daily(day) ==
            LET i == IF has_im /\ day \in DOMAIN im.daily_counts
                     THEN im.daily_counts[day] ELSE NoCounts
                w == IF has_wa /\ day \in DOMAIN wa.daily_counts
                     THEN wa.daily_counts[day] ELSE NoCounts
            IN [total    |-> i.total + w.total,
                sent     |-> i.sent + w.sent,
                received |-> i.received + w.received,
                imessage |-> i.total,
                whatsapp |-> w.total]
    IN [contacts           |-> contacts,
        daily_counts       |-> [day \in dates |-> daily(day)],
        hourly_counts      |-> [h \in 0..23 |->
                                   (IF has_im THEN Get(im.hourly_counts, h) ELSE 0)
                                   + (IF has_wa THEN Get(wa.hourly_counts, h) ELSE 0)],
        day_of_week_counts |-> [w \in 0..6 |->
                                   (IF has_im THEN Get(im.day_of_week_counts, w) ELSE 0)
                                   + (IF has_wa THEN Get(wa.day_of_week_counts, w) ELSE 0)],
        group_chats        |-> groups,
        summary            |->
            [total_messages |-> SeqSum([i \in DOMAIN contacts |-> contacts[i].total]),
             total_sent     |-> SeqSum([i \in DOMAIN contacts |-> contacts[i].sent]),
             total_received |-> SeqSum([i \in DOMAIN contacts |-> contacts[i].received]),
             total_contacts |-> Len(contacts),
             total_groups   |-> Len(groups),
             imessage_total |-> SeqSum([i \in DOMAIN contacts |-> IF contacts[i].platform = "imessage" THEN contacts[i].total ELSE 0]),
             whatsapp_total |-> SeqSum([i \in DOMAIN contacts |-> IF contacts[i].platform = "whatsapp" THEN contacts[i].total ELSE 0]),
             has_imessage   |-> has_im,
             has_whatsapp   |-> has_wa]]

\* merge_data(im_data, wa_data, has_im, has_wa) of the enhanced dashboard
MergeEnhanced(im, wa, has_im, has_wa) ==
    LET c_im     == IF has_im THEN im.contacts ELSE <<>>
        g_im     == IF has_im THEN im.group_chats ELSE <<>>
        m_im     == IF has_im THEN im.messages ELSE <<>>
        offset   == Len(c_im) + Len(g_im)
        c_wa     == IF has_wa THEN wa.contacts ELSE <<>>
        g_wa     == IF has_wa THEN wa.group_chats ELSE <<>>
        m_wa     == IF has_wa
                    THEN [i \in 1..Len(wa.messages) |->
                            <<wa.messages[i][1], wa.messages[i][2] + offset,
                              wa.messages[i][3], wa.messages[i][4]>>]
                    ELSE <<>>
        im_total == SeqSum([i \in DOMAIN c_im |-> c_im[i].total]) + SeqSum([i \in DOMAIN g_im |-> g_im[i].total])
        wa_total == SeqSum([i \in DOMAIN c_wa |-> c_wa[i].total]) + SeqSum([i \in DOMAIN g_wa |-> g_wa[i].total])
        contacts == c_im \o c_wa
        groups   == g_im \o g_wa
    IN [contacts    |-> contacts,
        group_chats |-> groups,
        messages    |-> m_im \o m_wa,
        summary     |->
            [total_messages |-> im_total + wa_total,
             total_sent     |-> SeqSum([i \in DOMAIN contacts |-> contacts[i].sent])
                                + SeqSum([i \in DOMAIN groups |-> groups[i].sent]),
             total_received |-> SeqSum([i \in DOMAIN contacts |-> contacts[i].received])
                                + SeqSum([i \in DOMAIN groups |-> IF "received" \in DOMAIN groups[i] THEN groups[i].received ELSE 0]),
             imessage_total |-> im_total,
             whatsapp_total |-> wa_total,
             has_imessage   |-> has_im,
             has_whatsapp   |-> has_wa]]

\* check_access() of a dashboard: a flag per store, sys.exit(1) when neither
\* store can be read
DashCheckAccess ==
    /\ pc = "check_access"
    /\ prog \in Dashboards
    /\ has' = [st \in Stores |-> access[st] = "ok"]
    /\ IF \A st \in Stores : access[st] # "ok"
       THEN /\ out' = [exit |-> 1, msg |-> "ACCESS DENIED"]
            /\ pc' = "exit"
       ELSE /\ out' = out
            /\ pc' = "get_imessage"
    /\ UNCHANGED <<prog, use_2024, access, chat, message, tz, ts_start, ts_jun, d,
                   data, merged, today, html>>

\* the iMessage store analysed whatever check_access() returned for it
GetImessageDataUnchecked ==
    /\ pc = "get_imessage"
    /\ prog \in Dashboards
    /\ \E rev \in BOOLEAN :
          data' = [data EXCEPT !["imessage"] =
                      StoreData(prog, "imessage", DashStart("imessage"), rev)]
    /\ pc' = "get_whatsapp"
    /\ UNCHANGED <<prog, use_2024, access, chat, message, tz, out, ts_start, ts_jun, d,
                   has, merged, today, html>>

\* imessage_data = {...}; if has_imessage: imessage_data = get_all_imessage_data(...)
GetImessageData ==
    /\ pc = "get_imessage"
    /\ prog \in Dashboards
    /\ \E rev \in BOOLEAN :
          data' = [data EXCEPT !["imessage"] =
                      IF has["imessage"]
                      THEN StoreData(prog, "imessage", DashStart("imessage"), rev)
                      ELSE EmptyData]
    /\ pc' = "get_whatsapp"
    /\ UNCHANGED <<prog, use_2024, access, chat, message, tz, out, ts_start, ts_jun, d,
                   has, merged, today, html>>

\* whatsapp_data = {...}; if has_whatsapp: whatsapp_data = get_all_whatsapp_data(...)
GetWhatsappData ==
    /\ pc = "get_whatsapp"
    /\ prog \in Dashboards
    /\ \E rev \in BOOLEAN :
          data' = [data EXCEPT !["whatsapp"] =
                      IF has["whatsapp"]
                      THEN StoreData(prog, "whatsapp", DashStart("whatsapp"), rev)
                      ELSE EmptyData]
    /\ pc' = "merge"
    /\ UNCHANGED <<prog, use_2024, access, chat, message, tz, out, ts_start, ts_jun, d,
                   has, merged, today, html>>

\* merged_data = merge_all_data(...) of texts_dashboard.py
MergeAllData ==
    /\ pc = "merge"
    /\ prog = "texts_dashboard"
    /\ merged' = MergeAll(data["imessage"], data["whatsapp"],
                          has["imessage"], has["whatsapp"])
    /\ pc' = "generate_html"
    /\ UNCHANGED <<prog, use_2024, access, chat, message, tz, out, ts_start, ts_jun, d,
                   has, data, today, html>>

\* data = merge_data(...) of texts_dashboard_enhanced.py
MergeData ==
    /\ pc = "merge"
    /\ prog = "texts_dashboard_enhanced"
    /\ merged' = MergeEnhanced(data["imessage"], data["whatsapp"],
                               has["imessage"], has["whatsapp"])
    /\ pc' = "generate_html"
    /\ UNCHANGED <<prog, use_2024, access, chat, message, tz, out, ts_start, ts_jun, d,
                   has, data, today, html>>

\* getDailyCounts() with nothing selected: the messages per UTC date of
\* new Date(msg[0] * 1000).toISOString()
HeatDailyCounts(messages) ==
    LET dates == {messages[i][1] \div 86400 : i \in 1..Len(messages)}
    IN [x \in dates |-> Cardinality({i \in 1..Len(messages) : messages[i][1] \div 86400 = x})]

\* current.toISOString().split('T')[0]: the UTC date of the local midnight of day
IsoDateOf(day) == (day * 86400 - tz) \div 86400

\* const YEAR = {year}: '2024' with --use-2024, else '2025'
DashYear == IF use_2024 THEN 2024 ELSE 2025

\* one cell of a column of the heat map
HeatCell(day, counts, maxCount, yearStart, yearEnd) ==
    LET count == IF IsoDateOf(day) \in DOMAIN counts THEN counts[IsoDateOf(day)] ELSE 0
    IN IF ~(yearStart <= day /\ day <= yearEnd)
       THEN [date |-> day, empty |-> TRUE, level |-> 0, count |-> 0]
       ELSE [date |-> day, empty |-> FALSE, level |-> Level(count, maxCount),
             count |-> count]

\* renderHeatmap() of the page opened on the local date day: columns of seven
\* days from the Sunday on or before Jan 1 to the Saturday on or after
\* yearEnd, which is Dec 31 only once that day has begun
RenderHeatmap(messages, day) ==
    LET counts    == HeatDailyCounts(messages)
        maxCount  == MaxOf({counts[x] : x \in DOMAIN counts} \cup {1})
        yearStart == Jan1(DashYear)
        yearEnd   == IF day >= Dec31(DashYear) THEN Dec31(DashYear) ELSE day
        firstDay  == SundayOnOrBefore(yearStart)
        lastDay   == SundayOnOrBefore(yearEnd) + 6
        columns   == IF lastDay < firstDay THEN 0 ELSE (lastDay - firstDay) \div 7 + 1
    IN [w \in 1..columns |->
           [i \in 1..7 |-> HeatCell(firstDay + 7 * (w - 1) + i - 1, counts, maxCount,
                                    yearStart, yearEnd)]]

\* generate_dashboard_html / generate_html; subprocess.run(['open', output])
GenerateHtml ==
    /\ pc = "generate_html"
    /\ prog \in Dashboards
    /\ pc' = "done"
    /\ out' = [exit |-> 0, msg |-> "Done"]
    /\ html' = IF prog = "texts_dashboard_enhanced"
               THEN [calendar |-> RenderHeatmap(merged.messages, today)]
               ELSE <<>>
    /\ UNCHANGED <<prog, use_2024, access, chat, message, tz, ts_start, ts_jun, d,
                   has, data, merged, today>>

----------------------------------------------------------------------------
(* The stores the runs start from *)

\* strictly increasing sequences of at most k keys in lo..hi
RECURSIVE IncSeqs(_, _, _)
IncSeqs(lo, hi, k) ==
    IF k = 0 THEN {<<>>}
    ELSE {<<>>} \cup UNION {{<<x>> \o s : s \in IncSeqs(x + 1, hi, k - 1)} : x \in lo..hi}

\* cocoa date of the 2024 window start of each store
Base2024(st) == IF st = "imessage" THEN TS_2024 - COCOA_OFFSET ELSE WA_TS_2024

\* <<chat, seconds after the window start>> of the modelled messages: chat 1
\* has gaps of 10, 11, 14400, 14401, 86390 and 86400 seconds, a message at the
\* window start and one before it; chat 2 and the group chat 3 lie in between
SeqSlots ==
    <<<<1, 0>>, <<1, 1>>, <<3, 1>>, <<1, 11>>, <<2, 11>>, <<1, 12>>, <<2, 12>>,
      <<3, 12>>, <<1, 14412>>, <<1, 86401>>>>

\* two 1:1 chats with room for two reply pairs (gaps of 11, 14400, 14411,
\* 71989 and 86389 seconds)
MeanSlots ==
    <<<<1, 1>>, <<2, 1>>, <<1, 12>>, <<1, 14412>>, <<2, 14412>>, <<1, 86401>>>>

\* two 1:1 chats and a group chat; in the iMessage store the handle of chat 1
\* also writes in the group chat
SeqChats(st) ==
    <<[handle |-> 1, short_code |-> FALSE, participant_count |-> 1, session_type |-> 0],
      [handle |-> 2, short_code |-> FALSE, participant_count |-> 1, session_type |-> 0],
      [handle |-> IF st = "imessage" THEN 1 ELSE 3, short_code |-> FALSE,
       participant_count |-> 3, session_type |-> 1]>>

\* the text of a message of one word
PlainText == Str(<<"x">>)

\* the row a key stands for: two keys per slot, one per direction
RowOfKey(st, slots, key, flip) ==
    [chat       |-> slots[(key \div 2) + 1][1],
     is_from_me |-> IF flip THEN 1 - (key % 2) ELSE key % 2,
     date       |-> Base2024(st) + slots[(key \div 2) + 1][2],
     n          |-> 1,
     text       |-> PlainText]

\* the message tables of at most k rows over the slots, in either order of the
\* two directions of a slot
Tables(st, slots, k) ==
    {[i \in 1..Len(ks) |-> RowOfKey(st, slots, ks[i], flip)] :
        ks \in IncSeqs(0, 2 * Len(slots) - 1, k), flip \in BOOLEAN}

NoChats == <<>>
NoRows == <<>>
NoData == <<>>

\* script p about to run on the stores (chats, tables) in time zone zone on
\* the local date day
StartOn(p, acc, chats, tables, zone, day) ==
    /\ today = day
    /\ html = NoData
    /\ prog = p
    /\ access = acc
    /\ chat = chats
    /\ message = tables
    /\ tz = zone
    /\ out = Running
    /\ ts_start = 0
    /\ ts_jun = 0
    /\ has = [st \in Stores |-> FALSE]
    /\ data = [st \in Stores |-> NoData]
    /\ merged = NoData

\* 2025-12-20 (day 20442 since 1970-01-01), a day of the season the report is made for
RunDay == 20089 + 353

Start(p, acc, chats, tables, zone) == StartOn(p, acc, chats, tables, zone, RunDay)

\* script p with its own store holding (c, t), a being the access to it
StoreStart(p, a, c, t) ==
    Start(p,
          [st \in Stores |-> IF st = StoreOf(p) THEN a ELSE "missing"],
          [st \in Stores |-> IF st = StoreOf(p) /\ a = "ok" THEN c ELSE NoChats],
          [st \in Stores |-> IF st = StoreOf(p) /\ a = "ok" THEN t ELSE NoRows],
          0)

\* the state of a wrapped script before main() runs
WrappedStart(p, a, c, t) ==
    /\ StoreStart(p, a, c, t)
    /\ pc = "check_access"
    /\ d = NoData

\* runs of the wrapped scripts over short message tables
Init ==
    /\ use_2024 = FALSE
    /\ \E p \in Wrapped :
          \/ \E t \in Tables(StoreOf(p), SeqSlots, MaxMsgs) :
                 WrappedStart(p, "ok", SeqChats(StoreOf(p)), t)
          \/ \E a \in {"missing", "denied"} : WrappedStart(p, a, NoChats, NoRows)

Next == CheckAccess \/ SelectWindow \/ Analyze \/ GenHtml

Spec == Init /\ [][Next]_vars

\* runs of the wrapped scripts over two 1:1 chats with up to MeanMsgs messages
InitMean ==
    /\ use_2024 \in BOOLEAN
    /\ \E p \in Wrapped :
          \/ \E t \in Tables(StoreOf(p), MeanSlots, MeanMsgs) :
                 WrappedStart(p, "ok", SeqChats(StoreOf(p)), t)
          \/ \E a \in {"missing", "denied"} : WrappedStart(p, a, NoChats, NoRows)

SpecMean == InitMean /\ [][Next]_vars

\* analyze() at its last step, on every combination of the values it reads
MaxCount == 3
RespValues == {0, 3, 4, 5, 30, 120, 121}
StarterValues == {0, 34, 35, 50, 65, 66, 100}

InitPersonality ==
    /\ use_2024 = FALSE
    /\ \E p \in Wrapped : StoreStart(p, "ok", NoChats, NoRows)
    /\ pc = "personality"
    /\ \E hour \in 0..23, resp \in RespValues, sent \in 0..MaxCount,
          received \in 0..MaxCount, starter \in StarterValues :
          d = [stats       |-> [total |-> sent + received, sent |-> sent,
                                received |-> received,
                                contacts |-> IF sent + received > 0 THEN 1 ELSE 0],
               top         |-> <<>>,
               late        |-> <<>>,
               hour        |-> hour,
               ghosted     |-> <<>>,
               heating     |-> <<>>,
               fan         |-> <<>>,
               simp        |-> <<>>,
               resp        |-> resp,
               starter_pct |-> starter,
               personality |-> "",
               group_stats |-> [count |-> 0, total |-> 0, sent |-> 0]]

NextPersonality == Classify

SpecPersonality == InitPersonality /\ [][NextPersonality]_vars

\* cocoa date of the 2025 window start and of the 2024 midpoint of each store
Base2025(st) == IF st = "imessage" THEN TS_2025 - COCOA_OFFSET ELSE WA_TS_2025
BaseJun2024(st) == IF st = "imessage" THEN TS_JUN_2024 - COCOA_OFFSET ELSE WA_TS_JUN_2024

\* the row a kind <<chat, is_from_me, base, seconds after the base, n>> stands
\* for; base 0 is the 2024 window start, 1 the 2024 midpoint, 2 the 2025 start
RowOfKind(st, k) ==
    [chat       |-> k[1],
     is_from_me |-> k[2],
     date       |-> (CASE k[3] = 0 -> Base2024(st)
                       [] k[3] = 1 -> BaseJun2024(st)
                       [] k[3] = 2 -> Base2025(st)) + k[4],
     n          |-> k[5],
     text       |-> PlainText]

\* the message tables of at most k rows over the kinds, in the kinds' order
KindTables(st, kinds, k) ==
    {[i \in 1..Len(ks) |-> RowOfKind(st, kinds[ks[i]])] : ks \in IncSeqs(1, Len(kinds), k)}

\* chat 1 is a 1:1 chat, chat 2 a 1:1 chat with a short code (iMessage) and
\* chat 3 a group chat; chat 0 is no chat: the row is joined to none
DashChats(st) ==
    <<[handle |-> 1, short_code |-> FALSE, participant_count |-> 1, session_type |-> 0],
      [handle |-> 2, short_code |-> st = "imessage", participant_count |-> 1,
       session_type |-> 0],
      [handle |-> IF st = "imessage" THEN 1 ELSE 3, short_code |-> FALSE,
       participant_count |-> 3, session_type |-> 1]>>

\* 3 sent and 2 received 1:1 messages, a short code message, 5 and 1 group
\* messages, a message of no chat, and messages of 2024 and of 2023
DashKinds ==
    <<<<1, 1, 2, 7205, 3>>, <<1, 0, 2, 306000, 2>>, <<2, 0, 2, 7205, 1>>,
      <<3, 0, 2, 7205, 5>>, <<3, 1, 0, 82800, 1>>, <<0, 0, 2, 306000, 1>>,
      <<1, 0, 0, -100, 4>>, <<2, 1, 0, 82800, 1>>>>

MaxDashRows == 2    \* rows of the iMessage table in the runs of SpecDash
MaxWaRows == 1      \* rows of the WhatsApp table in the dashboards' runs of SpecDash

\* local time is UTC or five hours behind it
DashZones == {0, -18000}

AccessValues == {"ok", "missing", "denied"}

InitDash ==
    /\ use_2024 \in BOOLEAN
    /\ pc = "check_access"
    /\ d = NoData
    /\ \/ \E p \in Wrapped, zone \in DashZones :
             \E t \in KindTables(StoreOf(p), DashKinds, MaxDashRows) :
                 Start(p,
                       [st \in Stores |-> IF st = StoreOf(p) THEN "ok" ELSE "missing"],
                       [st \in Stores |-> IF st = StoreOf(p) THEN DashChats(st) ELSE NoChats],
                       [st \in Stores |-> IF st = StoreOf(p) THEN t ELSE NoRows],
                       zone)
       \/ \E p \in Dashboards, ai \in AccessValues, aw \in AccessValues, zone \in DashZones :
             \E ti \in (IF ai = "ok" THEN KindTables("imessage", DashKinds, MaxDashRows)
                                     ELSE {NoRows}),
                tw \in (IF aw = "ok" THEN KindTables("whatsapp", DashKinds, MaxWaRows)
                                     ELSE {NoRows}) :
                 Start(p,
                       [st \in Stores |-> IF st = "imessage" THEN ai ELSE aw],
                       [st \in Stores |->
                           IF (IF st = "imessage" THEN ai ELSE aw) = "ok"
                           THEN DashChats(st) ELSE NoChats],
                       [st \in Stores |-> IF st = "imessage" THEN ti ELSE tw],
                       zone)

NextDash ==
    \/ CheckAccess
    \/ SelectWindow
    \/ Analyze
    \/ GenHtml
    \/ DashCheckAccess
    \/ GetImessageData
    \/ GetWhatsappData
    \/ MergeAllData
    \/ MergeData
    \/ GenerateHtml

\* runs of the four scripts over stores of a few weighted rows
SpecDash == InitDash /\ [][NextDash]_vars

\* the kinds of conversation of each store.  iMessage: a 1:1 chat, a group
\* chat in which the handle of the 1:1 chat writes, a chat with no recorded
\* participant and a second 1:1 chat.  WhatsApp: a direct-message session, a
\* group session, a group session with a single other member and a broadcast
\* list (session type 2)
ClassChats(st) ==
    IF st = "imessage"
    THEN <<[handle |-> 1, short_code |-> FALSE, participant_count |-> 1, session_type |-> 0],
           [handle |-> 1, short_code |-> FALSE, participant_count |-> 3, session_type |-> 0],
           [handle |-> 1, short_code |-> FALSE, participant_count |-> 0, session_type |-> 0],
           [handle |-> 2, short_code |-> FALSE, participant_count |-> 1, session_type |-> 0]>>
    ELSE <<[handle |-> 1, short_code |-> FALSE, participant_count |-> 1, session_type |-> 0],
           [handle |-> 2, short_code |-> FALSE, participant_count |-> 3, session_type |-> 1],
           [handle |-> 3, short_code |-> FALSE, participant_count |-> 1, session_type |-> 1],
           [handle |-> 4, short_code |-> FALSE, participant_count |-> 2, session_type |-> 2]>>

\* message counts on both sides of the thresholds of the 1:1 metrics, in the
\* 1:1 chat and in the other chats
ClassKinds ==
    <<<<1, 0, 0, 7205, 101>>, <<2, 1, 0, 7250, 60>>, <<1, 1, 0, 7300, 1>>,
      <<3, 0, 0, 7205, 7>>, <<4, 1, 0, 7205, 2>>, <<1, 0, 1, 100, 160>>,
      <<2, 0, 1, 100, 160>>, <<0, 0, 0, 7205, 1>>, <<1, 1, 0, 30000, 210>>>>

MaxClassRows == 3   \* rows of a message table in the runs of SpecClass

InitClass ==
    /\ use_2024 = FALSE
    /\ \E p \in Wrapped :
          \/ \E t \in KindTables(StoreOf(p), ClassKinds, MaxClassRows) :
                 WrappedStart(p, "ok", ClassChats(StoreOf(p)), t)
          \/ \E a \in {"missing", "denied"} : WrappedStart(p, a, NoChats, NoRows)

\* runs of the wrapped scripts over every kind of conversation
SpecClass == InitClass /\ [][Next]_vars

\* seven 1:1 chats, one per handle
TallyChats ==
    [c \in 1..7 |->
        [handle |-> c, short_code |-> FALSE, participant_count |-> 1, session_type |-> 0]]

\* received messages of the first half around the ghosted threshold (10 to 15
\* per chat), of the second half around its threshold (2 and 3), at the window
\* start, at the midpoint and shortly before the window start, and sent ones
TallyKinds ==
    <<<<1, 0, 0, 100, 11>>, <<2, 0, 0, 100, 12>>, <<3, 0, 0, 100, 12>>,
      <<4, 0, 0, 100, 13>>, <<5, 0, 0, 100, 14>>, <<6, 0, 0, 100, 15>>,
      <<7, 0, 0, 100, 10>>, <<1, 0, 1, 100, 2>>, <<2, 0, 1, 100, 3>>,
      <<4, 0, 1, 0, 3>>, <<5, 0, 0, 0, 20>>, <<7, 0, 0, -100, 11>>,
      <<3, 1, 0, 200, 5>>>>

MaxTallyRows == 6   \* rows of a message table in the runs of SpecTally

InitTally ==
    /\ use_2024 = FALSE
    /\ \E p \in Wrapped :
          \/ \E t \in KindTables(StoreOf(p), TallyKinds, MaxTallyRows) :
                 WrappedStart(p, "ok", TallyChats, t)
          \/ \E a \in {"missing", "denied"} : WrappedStart(p, a, NoChats, NoRows)

\* runs of the wrapped scripts over up to seven contacts with many messages
SpecTally == InitTally /\ [][Next]_vars

\* the rows of chat c that a profile, a sequence of kinds without the chat, stands for
ProfileRows(st, c, profile) ==
    [i \in 1..Len(profile) |-> RowOfKind(st, <<c>> \o profile[i])]

\* the message tables that hold, for each chat of 1..c in turn, the rows of one
\* of the profiles options[c]
RECURSIVE ProfileTables(_, _, _)
ProfileTables(st, options, c) ==
    IF c = 0 THEN {<<>>}
    ELSE {t \o ProfileRows(st, c, p) :
             t \in ProfileTables(st, options, c - 1), p \in options[c]}

MaxHeatChats == 6   \* 1:1 chats of a store in the runs of SpecHeat

\* one 1:1 chat per handle
HeatChats ==
    [c \in 1..MaxHeatChats |->
        [handle |-> c, short_code |-> FALSE, participant_count |-> 1, session_type |-> 0]]

\* the first-half and second-half volumes a chat may have: none; 21 then
\* 32 + c (at the midpoint itself); and, by turns, 22 then 33 (exactly 1.5
\* times), 20 then 60, or 21 then 40 after 5 messages at the window start
HeatOptions ==
    [c \in 1..MaxHeatChats |->
        {<<>>,
         <<<<0, 0, 100, 21>>, <<1, 1, 0, 32 + c>>>>,
         CASE c % 3 = 0 -> <<<<0, 0, 100, 11>>, <<1, 0, 200, 11>>, <<0, 1, 100, 33>>>>
           [] c % 3 = 1 -> <<<<1, 0, 100, 20>>, <<0, 1, 100, 60>>>>
           [] c % 3 = 2 -> <<<<0, 0, 0, 5>>, <<1, 0, 100, 21>>, <<0, 1, 100, 40>>>>}]

InitHeat ==
    /\ use_2024 = FALSE
    /\ \E p \in Wrapped :
          \/ \E t \in ProfileTables(StoreOf(p), HeatOptions, MaxHeatChats) :
                 WrappedStart(p, "ok", HeatChats, t)
          \/ \E a \in {"missing", "denied"} : WrappedStart(p, a, NoChats, NoRows)

\* runs of the wrapped scripts over contacts whose volume changes at the midpoint
SpecHeat == InitHeat /\ [][Next]_vars

MaxFanChats == 6    \* 1:1 chats of a store in the runs of SpecFan

\* one 1:1 chat per handle
FanChats ==
    [c \in 1..MaxFanChats |->
        [handle |-> c, short_code |-> FALSE, participant_count |-> 1, session_type |-> 0]]

\* the volumes a chat may have on the side big (0 received, 1 sent) and on the
\* other side: none; 100 + c against 1; and, by turns, 150 or 120 against
\* none, 160 against 2, 90 against 11, 100 against 50 (exactly twice) or 99
\* against 1 (100 in all)
FanOptions(big) ==
    [c \in 1..MaxFanChats |->
        {<<>>,
         <<<<big, 0, 100, 100 + c>>, <<1 - big, 1, 100, 1>>>>,
         CASE c % 6 = 0 -> <<<<big, 0, 100, 150>>>>
           [] c % 6 = 1 -> <<<<big, 0, 100, 160>>, <<1 - big, 0, 200, 2>>>>
           [] c % 6 = 2 -> <<<<big, 0, 100, 100>>, <<1 - big, 1, 100, 50>>>>
           [] c % 6 = 3 -> <<<<big, 1, 100, 120>>>>
           [] c % 6 = 4 -> <<<<1 - big, 0, 100, 11>>, <<big, 0, 200, 90>>>>
           [] c % 6 = 5 -> <<<<big, 0, 100, 99>>, <<1 - big, 0, 200, 1>>>>}]

InitFan ==
    /\ use_2024 = FALSE
    /\ \E p \in Wrapped :
          \/ \E big \in {0, 1} :
                \E t \in ProfileTables(StoreOf(p), FanOptions(big), MaxFanChats) :
                    WrappedStart(p, "ok", FanChats, t)
          \/ \E a \in {"missing", "denied"} : WrappedStart(p, a, NoChats, NoRows)

\* runs of the wrapped scripts over contacts with lopsided volumes
SpecFan == InitFan /\ [][Next]_vars

MaxRatioChats == 3  \* 1:1 chats of a store in the runs of SpecRatio

\* one 1:1 chat per handle
RatioChats ==
    [c \in 1..MaxRatioChats |->
        [handle |-> c, short_code |-> FALSE, participant_count |-> 1, session_type |-> 0]]

\* the messages of 2025 a chat may hold: none; 101 + c sent and 1 received; 3
\* sent and 2 received; 150 sent and none received; 2 received and none sent
RatioOptions ==
    [c \in 1..MaxRatioChats |->
        {<<>>,
         <<<<1, 2, 100, 101 + c>>, <<0, 2, 200, 1>>>>,
         <<<<1, 2, 100, 3>>, <<0, 2, 200, 2>>>>,
         <<<<1, 2, 100, 150>>>>,
         <<<<0, 2, 100, 2>>>>}]

InitRatio ==
    /\ use_2024 = FALSE
    /\ pc = "check_access"
    /\ d = NoData
    /\ \/ \E p \in Wrapped :
             \E t \in ProfileTables(StoreOf(p), RatioOptions, MaxRatioChats) :
                 StoreStart(p, "ok", RatioChats, t)
       \/ \E p \in Dashboards, aw \in {"ok", "missing"} :
             \E ti \in ProfileTables("imessage", RatioOptions, MaxRatioChats),
                tw \in (IF aw = "ok" THEN ProfileTables("whatsapp", RatioOptions, 1)
                                     ELSE {NoRows}) :
                 Start(p,
                       [st \in Stores |-> IF st = "imessage" THEN "ok" ELSE aw],
                       [st \in Stores |-> IF st = "imessage" \/ aw = "ok"
                                          THEN RatioChats ELSE NoChats],
                       [st \in Stores |-> IF st = "imessage" THEN ti ELSE tw],
                       0)

\* runs of the four scripts over contacts with few and with many messages
SpecRatio == InitRatio /\ [][NextDash]_vars

MaxTextLen == 3     \* characters of a text in the runs of SpecWords

Chars == {" ", "\t", "x"}

\* the strings of at most k characters
RECURSIVE Strings(_)
Strings(k) ==
    IF k = 0 THEN {<<>>}
    ELSE {<<>>} \cup {<<c>> \o s : c \in Chars, s \in Strings(k - 1)}

\* NULL, the strings of spaces, tabs and letters, and those that begin with a
\* reaction prefix
Texts ==
    {NullText}
    \cup {Str(s) : s \in Strings(MaxTextLen)}
    \cup {Str(<<p>> \o s) : p \in Reactions \cup LowerReactions, s \in Strings(MaxTextLen - 1)}

\* a row of chat c with the given text, off seconds after the 2024 window start
TextRow(st, c, me, off, k, text) ==
    [chat |-> c, is_from_me |-> me, date |-> Base2024(st) + off, n |-> k, text |-> text]

\* what a table may hold besides the row under study: nothing, a sent group
\* message of two words, or a received message
OtherRows(st) ==
    {<<>>,
     <<TextRow(st, 3, 1, 200, 1, Str(<<"x", " ", "x">>))>>,
     <<TextRow(st, 1, 0, 200, 1, PlainText)>>}

InitWords ==
    /\ use_2024 = FALSE
    /\ \E p \in Wrapped :
          \/ \E text \in Texts, me \in {0, 1}, off \in {0, 100}, k \in {1, 2},
                more \in OtherRows(StoreOf(p)) :
                 WrappedStart(p, "ok", SeqChats(StoreOf(p)),
                              <<TextRow(StoreOf(p), 1, me, off, k, text)>> \o more)
          \/ \E a \in {"missing", "denied"} : WrappedStart(p, a, NoChats, NoRows)

\* runs of the wrapped scripts over messages of every short text
SpecWords == InitWords /\ [][Next]_vars

MaxStreakDays == 6  \* days before and up to the run's date that may have messages

\* the dates a run is made on: 2025-01-02, 2025-12-20 and 2026-01-02
RunDays == {Jan1(2025) + 1, RunDay, Jan1(2026) + 1}

\* count messages of the group chat at noon of the local date day
DayRow(st, day, count) ==
    [chat |-> 3, is_from_me |-> 1, date |-> day * 86400 + 43200 - COCOA_OFFSET,
     n |-> count, text |-> PlainText]

\* one row per date of days: the k-th date has counts[k] messages, and one
\* message when counts is shorter
RECURSIVE DayRows(_, _, _)
DayRows(st, days, counts) ==
    IF days = {} THEN <<>>
    ELSE LET x == CHOOSE x \in days : \A y \in days : x <= y
         IN <<DayRow(st, x, IF counts = <<>> THEN 1 ELSE Head(counts))>>
            \o DayRows(st, days \ {x}, IF counts = <<>> THEN <<>> ELSE Tail(counts))

\* runs of the wrapped scripts on the days around a new year and late in the
\* year, over stores with messages on any of the last MaxStreakDays days
InitStreak ==
    /\ use_2024 \in BOOLEAN
    /\ d = NoData
    /\ pc = "check_access"
    /\ \E p \in Wrapped, day \in RunDays :
          \/ \E days \in SUBSET ((day - MaxStreakDays + 1)..day), first \in {1, 2, 100} :
                 LET a == [st \in Stores |-> IF st = StoreOf(p) THEN "ok" ELSE "missing"]
                     c == [st \in Stores |-> IF st = StoreOf(p) THEN SeqChats(st) ELSE NoChats]
                     m == [st \in Stores |-> IF st = StoreOf(p)
                                             THEN DayRows(st, days, <<first>>) ELSE NoRows]
                 IN StartOn(p, a, c, m, 0, day)
          \/ \E a \in {"missing", "denied"} :
                 StartOn(p, [st \in Stores |-> IF st = StoreOf(p) THEN a ELSE "missing"],
                         [st \in Stores |-> NoChats], [st \in Stores |-> NoRows], 0, day)

SpecStreak == InitStreak /\ [][Next]_vars

MaxCalDays == 4     \* days before and up to the run's date that may have messages

\* messages per day, oldest day first: equal days, and days at and next to a
\* quarter, a half and three quarters of the busiest day
CountProfiles ==
    {<<1, 1, 1, 1>>, <<4, 1, 2, 3>>, <<8, 3, 5, 7>>, <<25, 100, 26, 75>>, <<76, 50, 51, 100>>}

\* time zones of the machine: UTC and one hour east of it
CalZones == {0, 3600}

\* runs of the four scripts around a new year and late in the year, over
\* stores with messages in the group chat on any of the last MaxCalDays days
InitCal ==
    /\ use_2024 \in BOOLEAN
    /\ d = NoData
    /\ pc = "check_access"
    /\ \E p \in Wrapped \cup Dashboards, day \in RunDays :
          \E days \in SUBSET ((day - MaxCalDays + 1)..day), counts \in CountProfiles,
             zone \in (IF p \in Dashboards THEN CalZones ELSE {0}),
             own \in (IF p \in Dashboards THEN Stores ELSE {StoreOf(p)}) :
              StartOn(p,
                      [st \in Stores |-> IF st = own THEN "ok" ELSE "missing"],
                      [st \in Stores |-> IF st = own THEN SeqChats(st) ELSE NoChats],
                      [st \in Stores |-> IF st = own THEN DayRows(st, days, counts)
                                         ELSE NoRows],
                      zone, day)

SpecCal == InitCal /\ [][NextDash]_vars

MaxAccessRows == 2  \* rows of each store's table in the runs of SpecAccess

\* runs of the four scripts over every combination of a readable, a missing and
\* an unreadable store; an unreadable store holds messages like a readable one
InitAccess ==
    /\ use_2024 = FALSE
    /\ pc = "check_access"
    /\ d = NoData
    /\ \E p \in Wrapped \cup Dashboards, ai \in AccessValues, aw \in AccessValues :
          /\ p \in Wrapped => (IF StoreOf(p) = "imessage" THEN aw ELSE ai) = "missing"
          /\ \E ti \in (IF ai = "missing" THEN {NoRows}
                        ELSE KindTables("imessage", DashKinds, MaxAccessRows)),
                tw \in (IF aw = "missing" THEN {NoRows}
                        ELSE KindTables("whatsapp", DashKinds, MaxAccessRows)) :
                 Start(p,
                       [st \in Stores |-> IF st = "imessage" THEN ai ELSE aw],
                       [st \in Stores |->
                           IF (IF st = "imessage" THEN ai ELSE aw) = "missing"
                           THEN NoChats ELSE DashChats(st)],
                       [st \in Stores |-> IF st = "imessage" THEN ti ELSE tw],
                       0)

SpecAccess == InitAccess /\ [][NextDash]_vars

\* 1:1 and group messages shortly before the 2024 window start, at it, more
\* than a year before it, and shortly after it
EmptyKinds ==
    <<<<1, 0, 0, -100, 11>>, <<1, 1, 0, 0, 3>>, <<3, 0, 0, -100, 2>>,
      <<2, 0, 0, -40000000, 12>>, <<1, 0, 0, 100, 1>>, <<3, 1, 0, 100, 1>>>>

MaxEmptyRows == 3   \* rows of a message table in the runs of SpecEmpty

InitEmpty ==
    /\ use_2024 \in BOOLEAN
    /\ \E p \in Wrapped :
          \/ \E t \in KindTables(StoreOf(p), EmptyKinds, MaxEmptyRows) :
                 WrappedStart(p, "ok", DashChats(StoreOf(p)), t)
          \/ \E a \in {"missing", "denied"} : WrappedStart(p, a, NoChats, NoRows)

\* runs of the wrapped scripts over stores with few or no messages in the window
SpecEmpty == InitEmpty /\ [][Next]_vars

\* unix times at and around the starts and midpoints of the two years: the
\* first second and the second day of 2024, the last second before and the
\* first after its midpoint, and the same for 2025
EpochTimes ==
    <<TS_2024, TS_2024 + 1, TS_2024 + 86400, TS_2024 + 86401, TS_JUN_2024,
      TS_JUN_2024 + 1, TS_2025, TS_2025 + 1, TS_JUN_2025, TS_JUN_2025 + 1>>

MaxEpochRows == 2   \* rows of a message table in the runs of SpecEpoch

\* a message of chat c sent or received at the unix time ts; both stores keep
\* the time in seconds since 2001-01-01
UnixRow(c, me, ts) ==
    [chat |-> c, is_from_me |-> me, date |-> ts - COCOA_OFFSET, n |-> 1, text |-> PlainText]

\* runs of the four scripts over stores whose messages lie at the given unix
\* times; a dashboard reads the same messages from both stores
InitEpoch ==
    /\ use_2024 \in BOOLEAN
    /\ pc = "check_access"
    /\ d = NoData
    /\ \E p \in Wrapped \cup Dashboards, c \in {1, 3}, me \in {0, 1} :
          \E ks \in IncSeqs(1, Len(EpochTimes), MaxEpochRows) :
              LET t       == [i \in 1..Len(ks) |-> UnixRow(c, me, EpochTimes[ks[i]])]
                  own(st) == p \in Dashboards \/ st = StoreOf(p)
              IN Start(p,
                       [st \in Stores |-> IF own(st) THEN "ok" ELSE "missing"],
                       [st \in Stores |-> IF own(st) THEN DashChats(st) ELSE NoChats],
                       [st \in Stores |-> IF own(st) THEN t ELSE NoRows],
                       0)

SpecEpoch == InitEpoch /\ [][NextDash]_vars

\* messages of two 1:1 chats and of the unnamed group chat on three days of the
\* 2024 window, in the second and the third hour of the day: two chats, two
\* days, two hours and two weekdays can hold equally many messages
TieKinds ==
    <<<<1, 0, 0, 3700, 2>>, <<2, 1, 0, 90100, 2>>, <<2, 0, 0, 7300, 1>>,
      <<3, 0, 0, 90100, 3>>, <<1, 1, 0, 180000, 2>>, <<3, 1, 0, 7300, 1>>>>

MaxTieRows == 3   \* rows of a message table in the runs of SpecTies

InitTies ==
    /\ use_2024 \in BOOLEAN
    /\ \E p \in Wrapped :
          \/ \E t \in KindTables(StoreOf(p), TieKinds, MaxTieRows) :
                 WrappedStart(p, "ok", SeqChats(StoreOf(p)), t)
          \/ \E a \in {"missing", "denied"} : WrappedStart(p, a, NoChats, NoRows)

\* runs of the wrapped scripts over stores whose groups of rows tie
SpecTies == InitTies /\ [][Next]_vars

MaxOrderRows == 2   \* rows of each message table in the dashboards' runs of SpecOrder

InitOrder ==
    /\ use_2024 \in BOOLEAN
    /\ pc = "check_access"
    /\ d = NoData
    /\ \/ InitTies
       \/ \E p \in Dashboards :
             \E ti \in KindTables("imessage", TieKinds, MaxOrderRows),
                tw \in KindTables("whatsapp", TieKinds, MaxOrderRows) :
                 Start(p,
                       [st \in Stores |-> "ok"],
                       [st \in Stores |-> SeqChats(st)],
                       [st \in Stores |-> IF st = "imessage" THEN ti ELSE tw],
                       0)

\* runs of the four scripts over stores whose contacts tie on their totals
SpecOrder == InitOrder /\ [][NextDash]_vars

\* 99 and 98 messages of the two 1:1 chats, one of the group chat and one of
\* no chat shortly after the 2025 start, messages at the 2025 start itself,
\* and messages of 2024
WindowKinds ==
    <<<<1, 0, 2, 100, 99>>, <<2, 1, 2, 200, 98>>, <<3, 0, 2, 100, 1>>,
      <<0, 0, 2, 100, 1>>, <<1, 1, 2, 0, 5>>, <<1, 1, 0, 100, 3>>>>

MaxWindowRows == 3   \* rows of a message table in the runs of SpecWindow

InitWindow ==
    /\ use_2024 \in BOOLEAN
    /\ \E p \in Wrapped :
          \/ \E t \in KindTables(StoreOf(p), WindowKinds, MaxWindowRows) :
                 WrappedStart(p, "ok", SeqChats(StoreOf(p)), t)
          \/ \E a \in {"missing", "denied"} : WrappedStart(p, a, NoChats, NoRows)

\* runs of the wrapped scripts over stores with about 100 messages after the
\* 2025 start
SpecWindow == InitWindow /\ [][Next]_vars

\* ---------------------------------------------------------------------------
\* Properties of the wrapped scripts' analysis
\* ---------------------------------------------------------------------------

\* the eight labels, in the order of their rules
Labels ==
    <<"NOCTURNAL MENACE", "TERMINALLY ONLINE", "TOO COOL TO REPLY",
      "POPULAR (ALLEGEDLY)", "THE YAPPER", "CONVERSATION STARTER", "THE WAITER",
      "SUSPICIOUSLY NORMAL">>

\* whether rule k matches the values the classifier reads
RuleMatches(k) ==
    CASE k = 1 -> d.hour < 5 \/ d.hour > 22
      [] k = 2 -> d.resp < 5
      [] k = 3 -> d.resp > 120
      [] k = 4 -> 2 * d.stats.sent < d.stats.received + 1
      [] k = 5 -> d.stats.sent > 2 * (d.stats.received + 1)
      [] k = 6 -> d.starter_pct > 65
      [] k = 7 -> d.starter_pct < 35
      [] k = 8 -> TRUE

\* C1: the classifier returns the label of the first of its eight rules, taken
\* in their fixed order, that matches; it returns one label of the eight; and a
\* peak hour of 2 with a response time of 3 is NOCTURNAL MENACE.
C1_FirstMatchingRule ==
    pc = "classified" =>
        /\ \A k \in 1..8 :
              d.personality = Labels[k]
                  <=> (RuleMatches(k) /\ \A e \in 1..(k - 1) : ~RuleMatches(e))
        /\ Cardinality({k \in 1..8 : d.personality = Labels[k]}) = 1
        /\ (d.hour = 2 /\ d.resp = 3) => d.personality = "NOCTURNAL MENACE"

C1_NightBeforeOnline ==
    /\ pc = "classified"
    /\ d.hour = 2
    /\ d.resp = 3
    /\ d.personality = "NOCTURNAL MENACE"

\* the rows of the running script's store that lie in the window and belong to
\* a conversation with exactly one recorded participant
Store == StoreOf(prog)
Rows == message[Store]
WindowRows ==
    {i \in 1..Len(Rows) :
        /\ Rows[i].chat \in DOMAIN chat[Store]
        /\ chat[Store][Rows[i].chat].participant_count = 1
        /\ Ts(Store, Rows[i]) > ts_start}

SameConversation(i, j) ==
    chat[Store][Rows[i].chat].handle = chat[Store][Rows[j].chat].handle

\* within the rows W, row i is the message of j's conversation that comes
\* immediately before j
PrecedesIn(W, i, j) ==
    /\ i \in W
    /\ j \in W
    /\ SameConversation(i, j)
    /\ Before(Rows, i, j)
    /\ ~\E k \in W :
          SameConversation(k, j) /\ Before(Rows, i, k) /\ Before(Rows, k, j)

Precedes(i, j) == PrecedesIn(WindowRows, i, j)

Gap(i, j) == Rows[j].date - Rows[i].date

\* the sent rows that answer a received row within a day and after 10 seconds
RepliesIn(W) ==
    {j \in W :
        /\ Rows[j].is_from_me = 1
        /\ \E i \in W :
              /\ PrecedesIn(W, i, j)
              /\ Rows[i].is_from_me = 0
              /\ Gap(i, j) > 10
              /\ Gap(i, j) < 86400}

Replies == RepliesIn(WindowRows)

RepliesGapSumIn(W) ==
    SetSum(RepliesIn(W), [j \in RepliesIn(W) |->
                             Gap(CHOOSE i \in W : PrecedesIn(W, i, j), j)])

RepliesGapSum == RepliesGapSumIn(WindowRows)

\* the rows analyze() records a gap for, and the rows it counts as sessions
RecordedFrom == OneOnOneInWindow(Store, ts_start)
Recorded == ReplyRowsOf(Store, RecordedFrom)
Counted == SessionRowsOf(Store, RecordedFrom)

\* C2: a gap is recorded for a message exactly when the message is sent, the
\* message immediately before it in the same one-to-one conversation, among the
\* messages of the window, is received, and the gap is more than 10 and less than
\* 86400 seconds; gaps of 10 and of 86400 are not recorded, and the two messages
\* of a recorded gap belong to one conversation.
C2_ReplyPairs ==
    pc = "done" =>
        /\ {RecordedFrom[j] : j \in Recorded} = {Rows[j] : j \in Replies}
        /\ \A j \in Recorded :
              LET l == Lag(Store, RecordedFrom, j)
                  g == RecordedFrom[j].date - RecordedFrom[l].date
              IN  /\ g # 10
                  /\ g # 86400
                  /\ chat[Store][RecordedFrom[l].chat].handle
                         = chat[Store][RecordedFrom[j].chat].handle

\* a reply is recorded although a message of another conversation lies between
\* the two messages of the pair
C2_PairAcrossInterleaving ==
    /\ pc = "done"
    /\ \E j \in Recorded :
          LET l == Lag(Store, RecordedFrom, j)
          IN  \E i \in 1..Len(Rows) :
                  /\ Rows[i].chat # RecordedFrom[j].chat
                  /\ Rows[i].date > RecordedFrom[l].date
                  /\ Rows[i].date < RecordedFrom[j].date

\* the rows that open a session
OpenersIn(W) ==
    {j \in W :
        \/ ~\E i \in W : SameConversation(i, j) /\ Before(Rows, i, j)
        \/ \E i \in W : PrecedesIn(W, i, j) /\ Gap(i, j) > 14400}

Openers == OpenersIn(WindowRows)

C4_StarterPercentRange ==
    pc = "done" =>
        /\ d.starter_pct \in 0..100
        /\ WindowRows = {} => d.starter_pct = 50

\* the store holds messages, all of them of a group, and the percent is 50
C4_NoSessionGivesFifty ==
    /\ pc = "done"
    /\ Len(Rows) > 0
    /\ WindowRows = {}
    /\ d.starter_pct = 50

\* C5: the response time is a non-negative integer, and it is 30 when no reply
\* of the window qualifies.
C5_ResponseTimeDefault ==
    pc = "done" =>
        /\ d.resp \in Nat
        /\ Replies = {} => d.resp = 30

\* a sent message follows a received one of its conversation at a gap that does
\* not qualify, and the response time is 30
C5_NoPairGivesThirty ==
    /\ pc = "done"
    /\ Replies = {}
    /\ \E i, j \in WindowRows :
          /\ Precedes(i, j)
          /\ Rows[i].is_from_me = 0
          /\ Rows[j].is_from_me = 1
    /\ d.resp = 30

\* C6 as stated: with a qualifying reply, the response time is the mean of the
\* recorded gaps in minutes rounded to the nearest integer.
C6_MeanRoundedToNearest ==
    (pc = "done" /\ Replies # {}) =>
        LET k == Cardinality(Replies)
        IN  /\ 2 * (RepliesGapSum - 60 * k * d.resp) <= 60 * k
            /\ 2 * (60 * k * d.resp - RepliesGapSum) <= 60 * k

\* C6: with a qualifying reply, the response time is the mean of the recorded
\* gaps of all one-to-one conversations in minutes, with the fraction of a
\* minute dropped.
C6_MeanTruncated ==
    (pc = "done" /\ Replies # {}) =>
        LET k == Cardinality(Replies)
        IN  /\ 60 * k * d.resp <= RepliesGapSum
            /\ RepliesGapSum < 60 * k * (d.resp + 1)

\* two replies of two conversations enter the mean
C6_MeanOfTwoConversations ==
    /\ pc = "done"
    /\ \E i, j \in Replies : ~SameConversation(i, j)
    /\ Cardinality(Replies) = 2
    /\ d.resp > 0

\* ---------------------------------------------------------------------------
\* Properties of the rollups and histograms
\* ---------------------------------------------------------------------------

Additive(rollup) == rollup.sent + rollup.received = rollup.total

\* C7: every top-contact row of a wrapped script and every contact record of
\* a dashboard has sent + received = total, and the summary a dashboard merges
\* has total_sent + total_received = total_messages, whichever stores it read.
C7_RollupsAdditive ==
    /\ (prog \in Wrapped /\ pc = "done") =>
           \A i \in DOMAIN d.top : Additive(d.top[i])
    /\ (prog \in Dashboards /\ pc = "done") =>
           /\ \A st \in Stores : \A i \in DOMAIN data[st].contacts :
                  Additive(data[st].contacts[i])
           /\ \A i \in DOMAIN merged.contacts : Additive(merged.contacts[i])
           /\ merged.summary.total_sent + merged.summary.total_received
                  = merged.summary.total_messages

\* a dashboard has merged contacts of both stores and a group chat
C7_MergedBothStores ==
    /\ prog = "texts_dashboard_enhanced"
    /\ pc = "done"
    /\ has["imessage"]
    /\ has["whatsapp"]
    /\ \E i, j \in DOMAIN merged.contacts :
          /\ merged.contacts[i].platform = "imessage"
          /\ merged.contacts[j].platform = "whatsapp"
    /\ Len(merged.group_chats) > 0
    /\ merged.summary.total_sent > 0
    /\ merged.summary.total_received > 0

\* the number of stored messages of the rows I of store st
StoredCount(st, I) == SetSum(I, [i \in I |-> message[st][i].n])

\* local hour and weekday (0 is Sunday; 1970-01-04 was one) of a row
LocalHour(r) == ((r.date + COCOA_OFFSET + tz) % 86400) \div 3600
LocalWeekday(r) == (((r.date + COCOA_OFFSET + tz) \div 86400) - 3) % 7

\* the messages of the window that starts at start: all of them, those of a
\* conversation with one recorded participant, and those of an hour or weekday
InWindowCount(st, start) == StoredCount(st, {i \in DOMAIN message[st] :
        LET r == message[st][i] IN Ts(st, r) > start})

DirectCount(st, start) ==
    StoredCount(st, {i \in DOMAIN message[st] :
        LET r == message[st][i] IN /\ Ts(st, r) > start
                               /\ r.chat \in DOMAIN chat[st]
                               /\ chat[st][r.chat].participant_count = 1})

HourCount(st, start, h) ==
    StoredCount(st, {i \in DOMAIN message[st] :
        LET r == message[st][i] IN Ts(st, r) > start /\ LocalHour(r) = h})

WeekdayCount(st, start, w) ==
    StoredCount(st, {i \in DOMAIN message[st] :
        LET r == message[st][i] IN Ts(st, r) > start /\ LocalWeekday(r) = w})

\* the stores a dashboard has read
Read == {st \in Stores : has[st]}

\* C9: the total of the overall stats is the number of the window's messages
\* of one-to-one conversations, while the hour and weekday histograms count
\* every message of the window, group messages included: each bucket holds the
\* messages of its hour or weekday, the buckets sum to the number of all the
\* window's messages, and the peak hour is a fullest bucket.
C9_TotalAndHistograms ==
    /\ (prog \in Wrapped /\ pc = "done") =>
           /\ d.stats.total = DirectCount(Store, ts_start)
           /\ InWindowCount(Store, ts_start) > 0 =>
                  \A h \in 0..23 : HourCount(Store, ts_start, h)
                                       <= HourCount(Store, ts_start, d.hour)
    /\ (prog \in Dashboards /\ pc = "done") =>
           \A st \in Read :
               /\ \A h \in 0..23 : Get(data[st].hourly_counts, h)
                                       = HourCount(st, DashStart(st), h)
               /\ \A w \in 0..6 : Get(data[st].day_of_week_counts, w)
                                      = WeekdayCount(st, DashStart(st), w)
               /\ SetSum(DOMAIN data[st].hourly_counts, data[st].hourly_counts)
                      = InWindowCount(st, DashStart(st))
               /\ SetSum(DOMAIN data[st].day_of_week_counts, data[st].day_of_week_counts)
                      = InWindowCount(st, DashStart(st))
    /\ (prog = "texts_dashboard" /\ pc = "done") =>
           LET all == SetSum(Read, [st \in Read |-> InWindowCount(st, DashStart(st))])
           IN  /\ \A h \in 0..23 :
                      merged.hourly_counts[h]
                          = SetSum(Read, [st \in Read |-> HourCount(st, DashStart(st), h)])
               /\ \A w \in 0..6 :
                      merged.day_of_week_counts[w]
                          = SetSum(Read, [st \in Read |-> WeekdayCount(st, DashStart(st), w)])
               /\ SetSum(0..23, merged.hourly_counts) = all
               /\ SetSum(0..6, merged.day_of_week_counts) = all

\* 3 one-to-one and 5 group messages: the contacts total 3, the hours sum to 8
C9_ThreeAndFive ==
    /\ prog = "texts_dashboard"
    /\ pc = "done"
    /\ Read = {"imessage"}
    /\ DirectCount("imessage", DashStart("imessage")) = 3
    /\ InWindowCount("imessage", DashStart("imessage")) = 8
    /\ merged.summary.total_messages = 3
    /\ SetSum(0..23, merged.hourly_counts) = 8

\* ---------------------------------------------------------------------------
\* Properties of the one-to-one / group split
\* ---------------------------------------------------------------------------

\* the number of stored messages of the rows I
CountIn(I) == SetSum(I, [i \in I |-> Rows[i].n])

IdsOf(list) == {list[i].id : i \in DOMAIN list}

\* a list of at most k results names the handles Q
Names(list, Q, k) ==
    /\ IdsOf(list) \subseteq Q
    /\ Cardinality(Q) <= k => Q \subseteq IdsOf(list)

\* every 1:1 metric of d is computed from the rows of the conversations that
\* Direct takes for one-to-one, and the group overview from those Group takes
\* for groups
MetricsSplitBy(Direct, Group) ==
    LET Known  == {i \in 1..Len(Rows) : Rows[i].chat \in DOMAIN chat[Store]}
        W      == {i \in Known : Rows[i].chat \in Direct
                                    /\ Ts(Store, Rows[i]) > ts_start}
        Y      == {i \in Known : Rows[i].chat \in Direct
                                    /\ Ts(Store, Rows[i]) > GhostedFrom(Store, ts_start)}
        GW     == {i \in Known : Rows[i].chat \in Group
                                    /\ Ts(Store, Rows[i]) > ts_start}
        H      == {chat[Store][Rows[i].chat].handle : i \in W \cup Y}
        Of(h, r) == chat[Store][r.chat].handle = h
        tot(h)   == CountIn({i \in W : LET r == Rows[i] IN Of(h, r)})
        snt(h)   == CountIn({i \in W : LET r == Rows[i] IN Of(h, r) /\ r.is_from_me = 1})
        rcv(h)   == CountIn({i \in W : LET r == Rows[i] IN Of(h, r) /\ r.is_from_me = 0})
        night(h) == CountIn({i \in W : LET r == Rows[i] IN Of(h, r) /\ LocalHour(r) < 5})
        h1(h)    == CountIn({i \in W : LET r == Rows[i] IN Of(h, r) /\ Ts(Store, r) < ts_jun})
        h2(h)    == CountIn({i \in W : LET r == Rows[i] IN Of(h, r) /\ Ts(Store, r) >= ts_jun})
        b(h)     == CountIn({i \in Y : LET r == Rows[i] IN Of(h, r) /\ r.is_from_me = 0
                                             /\ Ts(Store, r) < ts_jun})
        a(h)     == CountIn({i \in Y : LET r == Rows[i] IN Of(h, r) /\ r.is_from_me = 0
                                             /\ Ts(Store, r) >= ts_jun})
        k        == Cardinality(RepliesIn(W))
        opened   == Cardinality(OpenersIn(W))
        you      == Cardinality({j \in OpenersIn(W) : Rows[j].is_from_me = 1})
    IN  /\ d.stats.total = CountIn(W)
        /\ d.stats.sent = CountIn({i \in W : LET r == Rows[i] IN r.is_from_me = 1})
        /\ d.stats.received = CountIn({i \in W : LET r == Rows[i] IN r.is_from_me = 0})
        /\ d.stats.contacts = Cardinality({h \in H : tot(h) > 0})
        /\ Names(d.top, {h \in H : tot(h) > 0}, TopLimit)
        /\ \A i \in DOMAIN d.top :
              /\ d.top[i].total = tot(d.top[i].id)
              /\ d.top[i].sent = snt(d.top[i].id)
              /\ d.top[i].received = rcv(d.top[i].id)
        /\ Names(d.late, {h \in H : night(h) > 5}, LateLimit)
        /\ \A i \in DOMAIN d.late : d.late[i].n = night(d.late[i].id)
        /\ Names(d.ghosted, {h \in H : b(h) > 10 /\ a(h) < 3}, GhostedLimit)
        /\ \A i \in DOMAIN d.ghosted :
              d.ghosted[i].b = b(d.ghosted[i].id) /\ d.ghosted[i].a = a(d.ghosted[i].id)
        /\ Names(d.heating, {h \in H : h1(h) > 20 /\ 2 * h2(h) > 3 * h1(h)}, HeatingLimit)
        /\ Names(d.fan, {h \in H : rcv(h) > 2 * snt(h) /\ tot(h) > 100}, FanLimit)
        /\ Names(d.simp, {h \in H : snt(h) > 2 * rcv(h) /\ tot(h) > 100}, FanLimit)
        /\ d.resp = IF k = 0 THEN 30 ELSE RepliesGapSumIn(W) \div (60 * k)
        /\ IF opened = 0 THEN d.starter_pct = 50
           ELSE /\ 2 * (100 * you - d.starter_pct * opened) <= opened
                /\ 2 * (d.starter_pct * opened - 100 * you) <= opened
        /\ d.group_stats.total = CountIn(GW)
        /\ d.group_stats.count = Cardinality({Rows[i].chat : i \in GW})

\* C8 as stated: in both stores a conversation is one-to-one iff it has exactly
\* one recorded participant and group iff it has two or more; the one-to-one
\* metrics read the former only and the group overview the latter only.
C8_SplitByParticipants ==
    pc = "done" =>
        MetricsSplitBy({c \in DOMAIN chat[Store] : chat[Store][c].participant_count = 1},
                 {c \in DOMAIN chat[Store] : chat[Store][c].participant_count >= 2})

\* C8: an iMessage conversation is one-to-one iff it has exactly one recorded
\* participant and group iff it has two or more, and a WhatsApp conversation is
\* one-to-one iff its session is a direct-message session (type 0) and group
\* iff it is a group session (type 1); no conversation is both, an iMessage
\* conversation with no recorded participant is neither, and the one-to-one
\* metrics read the messages of one-to-one conversations only.
C8_SplitByStore ==
    /\ \A st \in Stores : \A c \in DOMAIN chat[st] :
          /\ ~(IsOneOnOne(st, c) /\ IsGroup(st, c))
          /\ (st = "imessage" /\ chat[st][c].participant_count = 0) =>
                 ~IsOneOnOne(st, c) /\ ~IsGroup(st, c)
    /\ pc = "done" =>
          IF Store = "imessage"
          THEN MetricsSplitBy({c \in DOMAIN chat[Store] : chat[Store][c].participant_count = 1},
                 {c \in DOMAIN chat[Store] : chat[Store][c].participant_count >= 2})
          ELSE MetricsSplitBy({c \in DOMAIN chat[Store] : chat[Store][c].session_type = 0},
                 {c \in DOMAIN chat[Store] : chat[Store][c].session_type = 1})

\* the window holds messages of a 1:1 chat, of a group chat of the same handle
\* and of a chat with no recorded participant, and the stats count the first
C8_ThreeKindsOfChat ==
    /\ pc = "done"
    /\ Store = "imessage"
    /\ \E i, j, k \in 1..Len(Rows) :
          /\ Rows[i].chat = 1
          /\ Rows[j].chat = 2
          /\ Rows[k].chat = 3
          /\ d.stats.total = Rows[i].n
    /\ d.group_stats.total > 0

\* ---------------------------------------------------------------------------
\* Properties of the half-year comparison
\* ---------------------------------------------------------------------------

\* the rows of the window that belong to the store's one-to-one conversations
DirectWindowRows ==
    {i \in 1..Len(Rows) :
        /\ Rows[i].chat \in DOMAIN chat[Store]
        /\ IF Store = "imessage" THEN chat[Store][Rows[i].chat].participant_count = 1
                                 ELSE chat[Store][Rows[i].chat].session_type = 0
        /\ Ts(Store, Rows[i]) > ts_start}

\* messages received from handle h in the window before (H1) and from (H2) the
\* midpoint
ReceivedH1(h) ==
    CountIn({i \in DirectWindowRows : LET r == Rows[i] IN /\ chat[Store][r.chat].handle = h
                                         /\ r.is_from_me = 0
                                         /\ Ts(Store, r) < ts_jun})

ReceivedH2(h) ==
    CountIn({i \in DirectWindowRows : LET r == Rows[i] IN /\ chat[Store][r.chat].handle = h
                                         /\ r.is_from_me = 0
                                         /\ Ts(Store, r) >= ts_jun})

GhostedHandles ==
    {h \in {chat[Store][Rows[i].chat].handle : i \in DirectWindowRows} :
        ReceivedH1(h) > 10 /\ ReceivedH2(h) < 3}

\* C10: ghosted lists one-to-one conversations with more than 10 messages
\* received in H1 and fewer than 3 in H2, counting only messages after the
\* window start, in both stores; it lists each once, by H1-received descending,
\* and all of them up to the limit of 5, those left out having no more
\* H1-received than those listed.
C10_GhostedWithinWindow ==
    pc = "done" =>
        /\ IdsOf(d.ghosted) \subseteq GhostedHandles
        /\ Len(d.ghosted) = Min(Cardinality(GhostedHandles), GhostedLimit)
        /\ Cardinality(IdsOf(d.ghosted)) = Len(d.ghosted)
        /\ \A i \in DOMAIN d.ghosted :
              /\ d.ghosted[i].b = ReceivedH1(d.ghosted[i].id)
              /\ d.ghosted[i].a = ReceivedH2(d.ghosted[i].id)
        /\ \A i, j \in DOMAIN d.ghosted : i < j => d.ghosted[i].b >= d.ghosted[j].b
        /\ \A h \in GhostedHandles \ IdsOf(d.ghosted) :
              \A i \in DOMAIN d.ghosted : ReceivedH1(h) <= d.ghosted[i].b

\* messages of the window exchanged with handle h before (H1) and from (H2)
\* the midpoint
TotalH1(h) ==
    CountIn({i \in DirectWindowRows :
                chat[Store][Rows[i].chat].handle = h /\ Ts(Store, Rows[i]) < ts_jun})

TotalH2(h) ==
    CountIn({i \in DirectWindowRows :
                chat[Store][Rows[i].chat].handle = h /\ Ts(Store, Rows[i]) >= ts_jun})

DirectHandles == {chat[Store][Rows[i].chat].handle : i \in DirectWindowRows}

HeatingHandles ==
    {h \in DirectHandles : TotalH1(h) > 20 /\ 2 * TotalH2(h) > 3 * TotalH1(h)}

\* C11: heating lists exactly the one-to-one conversations with H1-total > 20
\* and H2-total > 1.5 x H1-total, H1 counting the window's messages before the
\* midpoint and H2 those from the midpoint on; it lists each once, ordered by
\* H2-total minus H1-total descending, and all of them up to the limit of 5,
\* those left out having no larger a difference than those listed.
C11_HeatingUp ==
    pc = "done" =>
        /\ IdsOf(d.heating) \subseteq HeatingHandles
        /\ Len(d.heating) = Min(Cardinality(HeatingHandles), HeatingLimit)
        /\ Cardinality(IdsOf(d.heating)) = Len(d.heating)
        /\ \A i \in DOMAIN d.heating :
              /\ d.heating[i].h1 = TotalH1(d.heating[i].id)
              /\ d.heating[i].h2 = TotalH2(d.heating[i].id)
        /\ \A i, j \in DOMAIN d.heating :
              i < j => d.heating[i].h2 - d.heating[i].h1 >= d.heating[j].h2 - d.heating[j].h1
        /\ \A h \in HeatingHandles \ IdsOf(d.heating) :
              \A i \in DOMAIN d.heating :
                  TotalH2(h) - TotalH1(h) <= d.heating[i].h2 - d.heating[i].h1

\* six contacts heat up, one of them after messages at the window start, and
\* the list holds five of them; a seventh volume pattern does not qualify
C11_SixHeatingFiveListed ==
    /\ pc = "done"
    /\ Cardinality(HeatingHandles) = 6
    /\ Len(d.heating) = 5
    /\ \E i \in 1..Len(Rows) : Ts(Store, Rows[i]) = ts_start
    /\ \E i, j \in DOMAIN d.heating :
          i # j /\ d.heating[i].h2 - d.heating[i].h1 = d.heating[j].h2 - d.heating[j].h1

\* ---------------------------------------------------------------------------
\* Properties of the lopsided conversations
\* ---------------------------------------------------------------------------

\* messages of the window sent to (me = 1) or received from (me = 0) handle h
SideCount(h, me) ==
    CountIn({i \in DirectWindowRows :
                chat[Store][Rows[i].chat].handle = h /\ Rows[i].is_from_me = me})

\* the handles whose side me is more than twice the other side, with more
\* than 100 messages in all
LopsidedHandles(me) ==
    {h \in DirectHandles : /\ SideCount(h, me) > 2 * SideCount(h, 1 - me)
                           /\ SideCount(h, me) + SideCount(h, 1 - me) > 100}

\* big1/(small1 + 1) >= big2/(small2 + 1)
SmoothedAtLeast(big1, small1, big2, small2) ==
    big1 * (small2 + 1) >= big2 * (small1 + 1)

\* list names the handles of Q once each, up to the limit, with their two
\* counts, in descending order of big/(small + 1), those left out ranking no
\* higher than those listed
RankedBySmoothedRatio(list, me) ==
    LET Q == LopsidedHandles(me)
    IN  /\ IdsOf(list) \subseteq Q
        /\ Len(list) = Min(Cardinality(Q), FanLimit)
        /\ Cardinality(IdsOf(list)) = Len(list)
        /\ \A i \in DOMAIN list :
              /\ list[i].big = SideCount(list[i].id, me)
              /\ list[i].small = SideCount(list[i].id, 1 - me)
        /\ \A i, j \in DOMAIN list :
              i < j => SmoothedAtLeast(list[i].big, list[i].small,
                                       list[j].big, list[j].small)
        /\ \A h \in Q \ IdsOf(list) : \A i \in DOMAIN list :
              SmoothedAtLeast(list[i].big, list[i].small,
                              SideCount(h, me), SideCount(h, 1 - me))

\* C12: fan lists the one-to-one conversations with received > 2*sent and
\* sent+received > 100 in descending order of received/(sent+1), up to the
\* limit of 5; a conversation with sent = 0 and received = 150 ranks with
\* ratio 150 and is listed whenever fewer than 5 eligible conversations have a
\* larger received/(sent+1).
C12_FanBySmoothedRatio ==
    pc = "done" =>
        /\ RankedBySmoothedRatio(d.fan, 0)
        /\ \A h \in DirectHandles :
              (/\ SideCount(h, 1) = 0
               /\ SideCount(h, 0) = 150
               /\ Cardinality({g \in LopsidedHandles(0) :
                      ~SmoothedAtLeast(150, 0, SideCount(g, 0), SideCount(g, 1))})
                    < FanLimit)
              => h \in IdsOf(d.fan)

\* C13: simp lists the one-to-one conversations with sent > 2*received and
\* sent+received > 100 in descending order of sent/(received+1), up to the
\* limit of 5; a conversation with received = 0 ranks by sent/1, so none with a
\* smaller sent/(received+1) is listed before it or in its place.
C13_SimpBySmoothedRatio ==
    pc = "done" =>
        /\ RankedBySmoothedRatio(d.simp, 1)
        /\ \A h \in LopsidedHandles(1) :
              SideCount(h, 0) = 0 =>
                  /\ \A i, j \in DOMAIN d.simp :
                        (d.simp[j].id = h /\ i < j) =>
                            d.simp[i].big >= d.simp[j].big * (d.simp[i].small + 1)
                  /\ h \notin IdsOf(d.simp) =>
                        \A i \in DOMAIN d.simp :
                            d.simp[i].big >= SideCount(h, 1) * (d.simp[i].small + 1)

\* ---------------------------------------------------------------------------
\* Properties of the sent-to-received ratio
\* ---------------------------------------------------------------------------

\* ratio is a/b to the nearest 1/scale
NearestTo(ratio, a, b, scale) ==
    /\ 2 * (scale * a - ratio * b) <= b
    /\ 2 * (ratio * b - scale * a) <= b

\* the records of data['contacts'] that a dashboard has extracted
ContactRecords ==
    UNION {{data[st].contacts[i] : i \in DOMAIN data[st].contacts} : st \in Read}

\* the slide of the first simp shows sent/(received+1) to one decimal
SimpSlideSmoothed ==
    \A i \in DOMAIN html.simp :
        NearestTo(html.simp[i].ratio, SideCount(html.simp[i].id, 1),
                  SideCount(html.simp[i].id, 0) + 1, 10)

\* C14 as stated: every per-conversation ratio is sent/(received+1), whatever
\* the value of received, in the wrapped scripts and in the contact records of
\* both dashboards (to the two decimals a record holds).
C14_RatioSmoothedEverywhere ==
    /\ (prog \in Wrapped /\ pc = "done") => SimpSlideSmoothed
    /\ (prog \in Dashboards /\ pc = "done") =>
           \A c \in ContactRecords : NearestTo(c.ratio, c.sent, c.received + 1, 100)

\* C14: in the wrapped scripts the per-conversation ratio is sent/(received+1)
\* for every value of received; in the contact records of both dashboards it
\* is sent/max(received, 1) to two decimals: sent/received when received >= 1,
\* and sent itself when received is 0.
C14_RatioByScript ==
    /\ (prog \in Wrapped /\ pc = "done") => SimpSlideSmoothed
    /\ (prog \in Dashboards /\ pc = "done") =>
           \A c \in ContactRecords :
               IF c.received = 0 THEN c.ratio = 100 * c.sent
               ELSE NearestTo(c.ratio, c.sent, c.received, 100)

\* a dashboard holds a record with 3 sent and 2 received (ratio 1.5) and one
\* with none received
C14_ThreeToTwo ==
    /\ prog \in Dashboards
    /\ pc = "done"
    /\ \E c, e \in ContactRecords :
          /\ c.sent = 3 /\ c.received = 2 /\ c.ratio = 150
          /\ e.sent = 150 /\ e.received = 0 /\ e.ratio = 15000

\* ---------------------------------------------------------------------------
\* Properties of the word count
\* ---------------------------------------------------------------------------

\* the spaces a character of the model stands for
Blanks(ch) ==
    IF ch = " " THEN 1
    ELSE IF ch \in {"Laughed at \"", "laughed at \""} THEN 2
    ELSE IF ch \in Reactions \cup LowerReactions THEN 1
    ELSE 0

\* the spaces of the string s between its first and its last character that is
\* not a space
InteriorSpaces(s) ==
    LET I == {i \in DOMAIN s : s[i] # " "}
        J == {i \in DOMAIN s : \E a, b \in I : a <= i /\ i <= b}
    IN SetSum(J, [i \in J |-> Blanks(s[i])])

\* the tokens of a text: none for a text that is null, blank (empty or white
\* space only) or that begins with a reaction prefix, else the interior spaces
\* of the trimmed text plus one
Tokens(text) ==
    IF \/ text.null
       \/ \A i \in DOMAIN text.chars : text.chars[i] \in {" ", "\t"}
       \/ text.chars[1] \in Reactions
    THEN 0
    ELSE InteriorSpaces(text.chars) + 1

\* the sent messages of the window
SentInWindow == {i \in 1..Len(Rows) : Ts(Store, Rows[i]) > ts_start /\ Rows[i].is_from_me = 1}

\* C15: in both stores the word count is the sum, over the window's sent
\* messages, of the spaces of the trimmed text plus one, a message whose text
\* is null, blank or begins with a reaction prefix adding 0; received messages
\* add nothing.
C15_WordCount ==
    pc = "done" =>
        d.words = SetSum(SentInWindow,
                         [i \in SentInWindow |-> Rows[i].n * Tokens(Rows[i].text)])

\* ---------------------------------------------------------------------------
\* Streaks of the WhatsApp report
\* ---------------------------------------------------------------------------

\* analyze() of whatsapp_wrapped.py has returned
WhatsappAnalyzed == prog = "whatsapp_wrapped" /\ pc \in {"gen_html", "done"}

\* the dates of d['daily_counts']
ActiveDates == DOMAIN d.activity.daily_counts

\* the days first..last all have messages
RunOfDays(first, last) == \A x \in first..last : x \in ActiveDates

\* C19: longest_streak >= current_streak for every daily map and every today,
\* and both are 0 when the map is empty
C19_LongestAtLeastCurrent ==
    WhatsappAnalyzed =>
        /\ d.activity.longest_streak >= d.activity.current_streak
        /\ (ActiveDates = {} =>
                d.activity.longest_streak = 0 /\ d.activity.current_streak = 0)

\* C19 witness: a current streak of two days after a gap, with a longer run before it
C19_CurrentAfterLongerRun ==
    /\ WhatsappAnalyzed
    /\ d.activity.current_streak = 2
    /\ d.activity.longest_streak = 3

\* the day the backward walk starts from
StreakEnd == IF today \in ActiveDates THEN today ELSE today - 1

\* C20: current_streak is the length of the maximal run of active days ending
\* at today if today has a message and else at yesterday: the days of the run
\* are active, the day before it is not, and it is 0 when the end day is not active
C20_CurrentStreakIsRun ==
    WhatsappAnalyzed =>
        LET k == d.activity.current_streak
        IN /\ k >= 0
           /\ RunOfDays(StreakEnd - k + 1, StreakEnd)
           /\ (StreakEnd - k) \notin ActiveDates
           /\ ((today \notin ActiveDates /\ (today - 1) \notin ActiveDates) => k = 0)

\* C20 witness: no message today, a run of three days ending yesterday
C20_RunEndsYesterday ==
    /\ WhatsappAnalyzed
    /\ today \notin ActiveDates
    /\ d.activity.current_streak = 3
    /\ Cardinality(ActiveDates) = 4

\* the year main() analyses: "2024" with the 2024 window, else "2025"
TargetYear == IF ts_start = WA_TS_2024 THEN 2024 ELSE 2025

\* the dates of d['daily_counts'] that lie in the analysed year
TargetDates == {x \in ActiveDates : Jan1(TargetYear) <= x /\ x <= Dec31(TargetYear)}

\* C17: active_days, current_streak and longest_streak count only the dates
\* from Jan 1 to Dec 31 of the analysed year: each equals its value over the
\* dates of that year alone
C17_OnlyTargetYearDates ==
    WhatsappAnalyzed =>
        /\ d.activity.active_days = Cardinality(TargetDates)
        /\ d.activity.current_streak = CurrentStreak(TargetDates, today)
        /\ d.activity.longest_streak = LongestStreak(TargetDates)

\* ---------------------------------------------------------------------------
\* The calendar of the WhatsApp report and of the enhanced dashboard
\* ---------------------------------------------------------------------------

\* the page with a calendar has been written
CalendarShown ==
    /\ pc = "done"
    /\ prog \in {"whatsapp_wrapped", "texts_dashboard_enhanced"}
    /\ html.calendar # <<>>

\* the analysed year of the script that wrote the calendar
CalYear == IF prog = "whatsapp_wrapped" THEN TargetYear ELSE DashYear

\* the cells of the calendar, as <<week, day of week>>
CalPositions == {<<w, i>> : w \in DOMAIN html.calendar, i \in 1..7}

\* the dates of the calendar's cells
CalDates == {html.calendar[c[1]][c[2]].date : c \in CalPositions}

\* every week runs over seven consecutive days from a Sunday, and each week
\* starts seven days after the one before
WholeWeeks ==
    \A w \in DOMAIN html.calendar :
        /\ (html.calendar[w][1].date + 4) % 7 = 0
        /\ \A i \in 1..7 : html.calendar[w][i].date = html.calendar[w][1].date + i - 1
        /\ (w > 1 => html.calendar[w][1].date = html.calendar[w - 1][1].date + 7)

\* C16: the grid is made of whole Sunday-to-Saturday weeks, starts at the
\* Sunday on or before Jan 1 of the analysed year and ends at the Saturday on or
\* after Dec 31 of it; every date of that year is in exactly one cell and every
\* cell of a date outside it is empty
C16_GridOfAnalysedYear ==
    CalendarShown =>
        LET cal == html.calendar
        IN /\ WholeWeeks
           /\ cal[1][1].date = SundayOnOrBefore(Jan1(CalYear))
           /\ cal[Len(cal)][7].date = SundayOnOrBefore(Dec31(CalYear)) + 6
           /\ Jan1(CalYear)..Dec31(CalYear) \subseteq CalDates
           /\ Cardinality(CalDates) = 7 * Len(cal)
           /\ \A c \in CalPositions :
                  ~(Jan1(CalYear) <= cal[c[1]][c[2]].date
                    /\ cal[c[1]][c[2]].date <= Dec31(CalYear)) => cal[c[1]][c[2]].empty

\* the largest single-day count the script observed, and at least 1
MaxDailyCount ==
    LET daily == IF prog = "whatsapp_wrapped" THEN d.activity.daily_counts
                 ELSE HeatDailyCounts(merged.messages)
    IN MaxOf({daily[x] : x \in DOMAIN daily} \cup {1})

\* <<count, level>> of the cells that are not empty
ShownLevels ==
    {<<html.calendar[c[1]][c[2]].count, html.calendar[c[1]][c[2]].level>> :
        c \in {x \in CalPositions : ~html.calendar[x[1]][x[2]].empty}}

\* C18: every cell of the year has a level in 0..4, which is 0 iff its count
\* is 0 and else the quarter (0, 1/4], (1/4, 1/2], (1/2, 3/4], (3/4, 1] that
\* count / MaxDailyCount lies in; so the level does not decrease with the count
\* and a day with the maximum count has level 4
C18_LevelByQuarter ==
    CalendarShown =>
        /\ MaxDailyCount >= 1
        /\ \A c \in ShownLevels :
              /\ c[2] \in 0..4
              /\ (c[2] = 0 <=> c[1] = 0)
              /\ (c[1] > 0 => /\ (c[2] - 1) * MaxDailyCount < 4 * c[1]
                              /\ 4 * c[1] <= c[2] * MaxDailyCount)
              /\ (c[1] = MaxDailyCount => c[2] = 4)
        /\ \A c1, c2 \in ShownLevels : c1[1] <= c2[1] => c1[2] <= c2[2]

\* C18 witness: days with a quarter of the busiest day's messages, one more
\* than a quarter, three quarters and all of them, at levels 1, 2, 3 and 4
C18_FourLevelsShown ==
    /\ CalendarShown
    /\ MaxDailyCount = 100
    /\ {<<25, 1>>, <<26, 2>>, <<75, 3>>, <<100, 4>>} \subseteq ShownLevels

\* ---------------------------------------------------------------------------
\* Access to the stores
\* ---------------------------------------------------------------------------

\* the stores the access check of this run can read
Readable == {st \in Stores : access[st] = "ok"}

\* the dashboard is past the analysis of both stores
DashAnalysed == prog \in Dashboards /\ pc \in {"merge", "generate_html", "done"}

\* the dashboard has merged the stores' data
DashMerged == prog \in Dashboards /\ pc \in {"generate_html", "done"}

\* the platforms of the merged contacts and groups
MergedPlatforms ==
    {merged.contacts[i].platform : i \in DOMAIN merged.contacts}
    \cup {merged.group_chats[i].platform : i \in DOMAIN merged.group_chats}

\* C21: a dashboard with exactly one readable store runs on, analyses that
\* store only and reports its contacts, groups and counts alone; the run exits
\* with status 1 only when neither store can be read
C21_ContinueWithReadableStore ==
    prog \in Dashboards =>
        /\ (pc = "exit" => Readable = {} /\ out.exit = 1)
        /\ (pc \notin {"check_access", "exit"} => Readable # {})
        /\ (pc = "done" => out.exit = 0)
        /\ (DashAnalysed => \A st \in Stores \ Readable : data[st] = EmptyData)
        /\ (DashMerged => \A st \in Readable :
               Readable = {st} =>
                   /\ merged.contacts = data[st].contacts
                   /\ merged.group_chats = data[st].group_chats
                   /\ MergedPlatforms \subseteq {st}
                   /\ merged.summary.total_messages =
                          SeqSum([i \in DOMAIN data[st].contacts |-> data[st].contacts[i].total])
                          + (IF prog = "texts_dashboard" THEN 0
                             ELSE SeqSum([i \in DOMAIN data[st].group_chats |->
                                             data[st].group_chats[i].total])))

\* C21 witness: the iMessage store holds messages but cannot be read, and the
\* dashboard is done with a report of the WhatsApp contacts
C21_ReportOfWhatsappAlone ==
    /\ prog \in Dashboards
    /\ pc = "done"
    /\ access = [st \in Stores |-> IF st = "imessage" THEN "denied" ELSE "ok"]
    /\ message["imessage"] # NoRows
    /\ merged.contacts # <<>>
    /\ MergedPlatforms = {"whatsapp"}

\* the stores the access check of the script looks at
Checked == IF prog \in Wrapped THEN {StoreOf(prog)} ELSE Stores

\* C22: a store whose file does not exist and a store whose file cannot be
\* read are reported as two distinct conditions in every script: a run that
\* ends because its stores do not exist does not report ACCESS DENIED, one that
\* ends because they cannot be read does not report a missing store; and a
\* store that was not read is never reported as a readable store
C22_MissingDistinctFromDenied ==
    /\ (pc = "exit" =>
           /\ ((\A st \in Checked : access[st] = "missing") => out.msg = "FATAL")
           /\ ((\A st \in Checked : access[st] = "denied") => out.msg = "ACCESS DENIED"))
    /\ (DashMerged =>
           /\ merged.summary.has_imessage = (access["imessage"] = "ok")
           /\ merged.summary.has_whatsapp = (access["whatsapp"] = "ok"))

\* ---------------------------------------------------------------------------
\* A window without messages
\* ---------------------------------------------------------------------------

\* analyze() of a wrapped script has returned
Analyzed == prog \in Wrapped /\ pc \in {"gen_html", "done"}

\* the store holds no message after the start of the analysed window
EmptyWindow == AllInWindow(StoreOf(prog), ts_start) = <<>>

\* C23: with no message in the window the analysis completes and gives stats
\* (0,0,0,0), 0 words, a group overview of zeros, a starter percent of 50, a
\* response time of 30, no busiest day, 0 active days and streaks, and empty
\* top, late-night, ghosted, heating-up, fan, simp and group leaderboards
C23_EmptyWindowDefaults ==
    (Analyzed /\ EmptyWindow) =>
        /\ out.exit # 1
        /\ d.stats = [total |-> 0, sent |-> 0, received |-> 0, contacts |-> 0]
        /\ d.words = 0
        /\ d.group_stats = [count |-> 0, total |-> 0, sent |-> 0]
        /\ d.starter_pct = 50
        /\ d.resp = 30
        /\ d.busiest_day = NoDay
        /\ (prog = "whatsapp_wrapped" =>
               /\ d.activity.active_days = 0
               /\ d.activity.current_streak = 0
               /\ d.activity.longest_streak = 0)
        /\ d.top = <<>>
        /\ d.late = <<>>
        /\ d.ghosted = <<>>
        /\ d.heating = <<>>
        /\ d.fan = <<>>
        /\ d.simp = <<>>
        /\ d.group_leaderboard = <<>>

\* ---------------------------------------------------------------------------
\* The windows of the two stores
\* ---------------------------------------------------------------------------

\* the script has chosen its window
WindowChosen ==
    \/ prog \in Wrapped /\ pc \in {"analyze", "gen_html", "done"}
    \/ prog \in Dashboards /\ pc \notin {"check_access", "exit"}

\* the window start the script uses for store st
StartUsed(st) == IF prog \in Wrapped THEN ts_start ELSE DashStart(st)

\* the unix time of the start of the year the script analyses
UnixStartUsed ==
    IF StartUsed(StoreOf(prog)) \in {TS_2024, WA_TS_2024} THEN TS_2024 ELSE TS_2025

\* C24: the window starts and midpoints of the WhatsApp store, in seconds
\* since 2001-01-01, are the instants of the iMessage store's, in unix seconds;
\* so a message is in the window of the store that holds it iff its unix time
\* is after the unix start of the analysed year
C24_SameInstants ==
    /\ WA_TS_2024 + COCOA_OFFSET = TS_2024
    /\ WA_TS_JUN_2024 + COCOA_OFFSET = TS_JUN_2024
    /\ WA_TS_2025 + COCOA_OFFSET = TS_2025
    /\ WA_TS_JUN_2025 + COCOA_OFFSET = TS_JUN_2025
    /\ (WindowChosen =>
           \A st \in Stores : \A i \in DOMAIN message[st] :
               InWindow(st, message[st][i], StartUsed(st))
                   <=> UnixTs(message[st][i]) > UnixStartUsed)

\* ---------------------------------------------------------------------------
\* Results and the order of the store's rows
\* ---------------------------------------------------------------------------

\* C25: the values analyze() returned are the ones it returns for every order
\* in which the store may hand back tied or unordered rows: the busiest day,
\* the peak hour, the peak weekday, the leaderboards and the group names
C25_SameForEveryRowOrder ==
    Analyzed =>
        LET st == StoreOf(prog) IN
        /\ \A b \in BusiestDays(st, ts_start) : d.busiest_day = b
        /\ \A h \in PeakHours(st, ts_start) : d.hour = h
        /\ \A w \in PeakDays(st, ts_start) : d.day = w
        /\ \A rev \in BOOLEAN :
              /\ d.top = Top(st, ts_start, rev)
              /\ d.late = Late(st, ts_start, rev)
              /\ d.ghosted = Ghosted(st, ts_start, ts_jun, rev)
              /\ d.heating = Heating(st, ts_start, ts_jun, rev)
              /\ d.fan = Fan(st, ts_start, rev)
              /\ d.simp = Simp(st, ts_start, rev)
              /\ \A names \in FallbackNames(st) :
                    d.group_leaderboard = GroupLeaderboard(st, ts_start, rev, names)

\* ---------------------------------------------------------------------------
\* The busiest day
\* ---------------------------------------------------------------------------

\* the local dates of the window's messages, 1:1 and group alike, with the
\* number of messages of each
WindowDaily == DailyMap(StoreOf(prog), ts_start)

\* d['busiest_day'] is a date of the window with the highest count
BusiestIsMaximal ==
    /\ d.busiest_day.date \in DOMAIN WindowDaily
    /\ d.busiest_day.count = WindowDaily[d.busiest_day.date]
    /\ \A x \in DOMAIN WindowDaily : WindowDaily[x] <= d.busiest_day.count

\* no earlier date has as many messages as d['busiest_day']
BusiestIsEarliest ==
    \A x \in DOMAIN WindowDaily :
        WindowDaily[x] = d.busiest_day.count => d.busiest_day.date <= x

\* the top days come by falling count, days of one count earliest first
TopDaysEarliestFirst ==
    LET top == d.activity.top_days IN
    \A i \in DOMAIN top : \A j \in DOMAIN top :
        i < j => \/ top[i].count > top[j].count
                 \/ top[i].count = top[j].count /\ top[i].date < top[j].date

\* C26: the busiest day is the earliest of the local dates with the highest
\* number of messages of the window, and the WhatsApp list of top days places
\* days of equal count earliest first
C26_BusiestIsEarliestMax ==
    (Analyzed /\ DOMAIN WindowDaily # {}) =>
        /\ BusiestIsMaximal
        /\ BusiestIsEarliest
        /\ (prog = "whatsapp_wrapped" => TopDaysEarliestFirst)

\* ---------------------------------------------------------------------------
\* The contact lists
\* ---------------------------------------------------------------------------

\* the handles of the 1:1 chats of a store
OneOnOneHandles(st) == {chat[st][c].handle : c \in {c \in DOMAIN chat[st] : IsOneOnOne(st, c)}}

\* the total of entry e is the number of the window's messages of the 1:1
\* chats with its handle
OneOnOneEntry(st, start, e) ==
    /\ e.id \in OneOnOneHandles(st)
    /\ e.total = CountRows(SelectSeq(OneOnOneInWindow(st, start),
                                     LAMBDA r : HandleOf(st, r) = e.id))

\* d['top'] comes by falling total, handles of one total in the store's order
TopInStoreOrder ==
    \A i \in DOMAIN d.top : \A j \in DOMAIN d.top :
        i < j => \/ d.top[i].total > d.top[j].total
                 \/ d.top[i].total = d.top[j].total /\ d.top[i].id < d.top[j].id

\* where an entry of the merged list comes from: the iMessage list before the
\* WhatsApp list, each in its own order
SourcePosition(e) ==
    IF e.platform = "imessage" THEN IndexOf(data["imessage"].contacts, e.id)
    ELSE Len(data["imessage"].contacts) + IndexOf(data["whatsapp"].contacts, e.id)

\* the merged list comes by falling total, entries of one total in source order
MergedInSourceOrder ==
    \A i \in DOMAIN merged.contacts : \A j \in DOMAIN merged.contacts :
        i < j => LET a == merged.contacts[i]
                     b == merged.contacts[j]
                 IN \/ a.total > b.total
                    \/ a.total = b.total /\ SourcePosition(a) < SourcePosition(b)

\* the merged list holds the entries of the readable stores' lists, each once
MergedIsPermutation ==
    /\ Len(merged.contacts) = Len(data["imessage"].contacts) + Len(data["whatsapp"].contacts)
    /\ \A st \in Stores : \A i \in DOMAIN data[st].contacts :
           \E k \in DOMAIN merged.contacts : merged.contacts[k] = data[st].contacts[i]

\* C27: the wrapped scripts' top list and the dashboard's merged contact list
\* hold 1:1 conversations only, by falling total and with conversations of one
\* total in source order; the merged list is a permutation of the readable
\* stores' lists and the top list has at most 20 entries
C27_ContactsByTotalInSourceOrder ==
    /\ Analyzed =>
          /\ \A i \in DOMAIN d.top : OneOnOneEntry(StoreOf(prog), ts_start, d.top[i])
          /\ TopInStoreOrder
          /\ Len(d.top) = Min(Cardinality(HandlesOf(StoreOf(prog),
                                  OneOnOneInWindow(StoreOf(prog), ts_start))), TopLimit)
    /\ (DashMerged /\ prog = "texts_dashboard") =>
          /\ \A i \in DOMAIN merged.contacts :
                 LET e == merged.contacts[i]
                 IN OneOnOneEntry(e.platform, DashStart(e.platform), e)
          /\ MergedInSourceOrder
          /\ MergedIsPermutation

\* ---------------------------------------------------------------------------
\* The entity index of the enhanced dashboard's message records
\* ---------------------------------------------------------------------------

\* the merged message records of the time ts that carry index idx and the
\* group flag is_group
RecordsOf(ts, idx, is_group) ==
    Cardinality({i \in DOMAIN merged.messages :
                    /\ merged.messages[i][1] = ts
                    /\ merged.messages[i][2] = idx
                    /\ merged.messages[i][4] = is_group})

\* the messages of the time ts collected for the contact e / for the group e
CollectedForContact(e, ts) ==
    CountRows(SelectSeq(ContactRows(e.platform, DashStart(e.platform)),
                        LAMBDA r : HandleOf(e.platform, r) = e.id /\ UnixTs(r) = ts))

CollectedForGroup(e, ts) ==
    CountRows(SelectSeq(GroupRows(e.platform, DashStart(e.platform)),
                        LAMBDA r : r.chat = e.id /\ UnixTs(r) = ts))

\* the times of the stores' messages
MessageTimes ==
    UNION {{UnixTs(message[st][i]) : i \in DOMAIN message[st]} : st \in Stores}

\* indices of the filters: contact c_k is index k, group g_k is index
\* k + D.contacts.length, k counting from 0
ContactIndex(c) == c - 1
GroupIndex(g) == (g - 1) + Len(merged.contacts)

\* C28: in the enhanced dashboard's merged data, the message records that
\* carry the index of a contact or of a group, under the convention of the
\* filters, are the messages collected for that contact or group, and every
\* record carries the index of a contact or of a group
C28_IndexIdentifiesEntity ==
    (DashMerged /\ prog = "texts_dashboard_enhanced") =>
        /\ \A c \in DOMAIN merged.contacts : \A ts \in MessageTimes :
               RecordsOf(ts, ContactIndex(c), 0) = CollectedForContact(merged.contacts[c], ts)
        /\ \A g \in DOMAIN merged.group_chats : \A ts \in MessageTimes :
               RecordsOf(ts, GroupIndex(g), 1) = CollectedForGroup(merged.group_chats[g], ts)
        /\ \A i \in DOMAIN merged.messages :
               IF merged.messages[i][4] = 0
               THEN \E c \in DOMAIN merged.contacts : merged.messages[i][2] = ContactIndex(c)
               ELSE \E g \in DOMAIN merged.group_chats : merged.messages[i][2] = GroupIndex(g)

\* ---------------------------------------------------------------------------
\* Queries come after the access check
\* ---------------------------------------------------------------------------

\* the script is at a point of main() behind check_access()
PastAccessCheck == pc \notin {"check_access", "exit"}

\* nothing has been read from any store, no report is written and no browser
\* is opened
NothingAnalysed ==
    /\ d = NoData
    /\ ts_start = 0
    /\ \A st \in Stores : data[st] = NoData
    /\ merged = NoData
    /\ html = NoData

\* results of queries against store st are held
ResultsOf(st) ==
    \/ prog \in Wrapped /\ st = StoreOf(prog) /\ (d # NoData \/ ts_start # 0)
    \/ prog \in Dashboards /\ data[st] \notin {NoData, EmptyData}

\* C29: results of a store's queries exist only behind a successful access
\* check of that store, a wrapped script runs past check_access() only with
\* its store readable, and a run whose configured stores all fail the check
\* never passes it: it ends with exit status 1, nothing analysed, no report
\* written and no browser opened, and takes no further step
C29_QueriesAfterAccessCheck ==
    /\ [](\A st \in Stores :
             ResultsOf(st) => /\ PastAccessCheck
                              /\ access[st] = "ok"
                              /\ (prog \in Dashboards => has[st]))
    /\ [](prog \in Wrapped /\ PastAccessCheck => access[StoreOf(prog)] = "ok")
    /\ []((\A st \in Checked : access[st] # "ok") =>
             /\ ~PastAccessCheck
             /\ NothingAnalysed
             /\ (pc = "exit" => out.exit = 1))
    /\ [][pc # "exit"]_vars

\* a dashboard finished over a readable iMessage store and an unreadable
\* WhatsApp store that holds messages: nothing was read from the latter
C29_DeniedStoreNotQueried ==
    /\ prog \in Dashboards
    /\ pc = "done"
    /\ access["whatsapp"] = "denied"
    /\ message["whatsapp"] # <<>>
    /\ data["whatsapp"] = EmptyData
    /\ data["imessage"].contacts # <<>>

\* ---------------------------------------------------------------------------
\* The analysed window of the wrapped scripts
\* ---------------------------------------------------------------------------

\* the stored messages, of any chat or of none, after 2025-01-01 00:00 UTC
After2025 ==
    CountRows(SelectSeq(message[StoreOf(prog)], LAMBDA r : UnixTs(r) > TS_2025))

\* the calendar year (UTC) of an instant of the script's store
YearOfInstant(ts) ==
    YearOf((IF StoreOf(prog) = "imessage" THEN ts ELSE ts + COCOA_OFFSET) \div 86400)

\* C30: a wrapped script analyses its 2024 window iff --use-2024 was given or
\* the store holds fewer than 100 messages after the 2025 start, its 2025
\* window otherwise, and the start and the midpoint it passes to analyze()
\* are of one year
C30_WindowSelection ==
    (prog \in Wrapped /\ pc \in {"analyze", "gen_html", "done"}) =>
        LET st == StoreOf(prog) IN
        /\ IF use_2024 \/ After2025 < 100
           THEN <<ts_start, ts_jun>> = Window2024(st) /\ YearOfInstant(ts_start) = 2024
           ELSE <<ts_start, ts_jun>> = Window2025(st) /\ YearOfInstant(ts_start) = 2025
        /\ YearOfInstant(ts_start) = YearOfInstant(ts_jun)

\* 99 messages of a 1:1 chat and one of a group chat after the 2025 start:
\* the 2025 window is analysed
C30_HundredWithGroupMessage ==
    /\ prog \in Wrapped
    /\ pc = "done"
    /\ ~use_2024
    /\ After2025 = 100
    /\ Stats(StoreOf(prog), ts_start).total = 99
    /\ ts_start = Window2025(StoreOf(prog))[1]
====
